---- MODULE Spec2Model ----
(***************************************************************************)
(* A model of the rustedgedb storage engine: the Engine (src/src/engine.rs)*)
(* orchestrating the WAL (src/src/wal.rs), the MemTable                    *)
(* (src/src/memtable.rs) and the SSTables (src/src/sstable.rs) over a data *)
(* directory that survives the engine instances.                           *)
(*                                                                         *)
(* Byte strings (keys, values) are sequences of small integers.  The       *)
(* wall-clock timestamp stored inside entries and records is only written, *)
(* never read back by the engine, and is left out of the entries; the      *)
(* timestamps that name files are modelled by the variable clock.          *)
(***************************************************************************)
EXTENDS Integers, Sequences, FiniteSets, TLC

----------------------------------------------------------------------------
(* Bounds of the model *)

MaxOps == 3
MaxOpsAnyKey == 1
MaxOpsCorrupt == 2
MaxCorrupt == 1
MaxClock == 2
MaxRuns == 3
MaxRunsAnyKey == 1
MaxOpsIo == 2
MaxRunsIo == 1
MaxOpsClock == 2
MaxRunsClock == 2
MaxOpsRetained == 3
MaxRunsRetained == 3

Keys == {<<1>>, <<2>>}
EmptyKey == << >>
AllKeys == Keys \cup {EmptyKey}
Values == {<< >>, <<7>>, <<8>>}
EmptyKeyValues == {<<7>>}
MemSizes == {35}

----------------------------------------------------------------------------
(* Program constants *)

EntryOverhead == 16
EntryHeaderSize == 24
MaxKeyLen == 1048576
MaxValueLen == 104857600
SSTableHeaderSize == 72
BloomPlaceholderSize == 64

----------------------------------------------------------------------------
(* Option<Vec<u8>> *)

None == [some |-> FALSE, v |-> << >>]
Some(v) == [some |-> TRUE, v |-> v]

(* Lexicographic order of byte strings (slice cmp) *)
RECURSIVE KeyLess(_, _)
KeyLess(a, b) ==
  IF b = << >> THEN FALSE
  ELSE IF a = << >> THEN TRUE
  ELSE IF Head(a) # Head(b) THEN Head(a) < Head(b)
  ELSE KeyLess(Tail(a), Tail(b))

----------------------------------------------------------------------------
(* MemTable (src/src/memtable.rs) *)

EntrySize(e) ==
  Len(e.key) + (IF e.value.some THEN Len(e.value.v) ELSE 0) + EntryOverhead

MemTableNew == [data |-> << >>, size |-> 0, seq |-> 0]

HasKey(data, key) == \E i \in 1..Len(data) : data[i].key = key

find_entry(data, key) ==
  IF HasKey(data, key)
  THEN Some(data[CHOOSE i \in 1..Len(data) : data[i].key = key])
  ELSE None

(* A vector that takes every new key at its end *)
InsertAtEndMut(data, entry) ==
  IF HasKey(data, entry.key)
  THEN [i \in 1..Len(data) |-> IF data[i].key = entry.key THEN entry ELSE data[i]]
  ELSE Append(data, entry)

(* binary_search_by on the sorted vector: replace on Ok(index), insert at the
   sorted position on Err(index) *)
insert_or_update(data, entry) ==
  IF HasKey(data, entry.key)
  THEN [i \in 1..Len(data) |-> IF data[i].key = entry.key THEN entry ELSE data[i]]
  ELSE LET n == Cardinality({i \in 1..Len(data) : KeyLess(data[i].key, entry.key)})
       IN SubSeq(data, 1, n) \o <<entry>> \o SubSeq(data, n + 1, Len(data))

SaturatingSub(a, b) == IF a >= b THEN a - b ELSE 0

(* The capacity test of MemTable::put / MemTable::delete *)
WouldOverflow(current_size, entry_size, max) == current_size + entry_size > max

(* Common body of MemTable::put and MemTable::delete: value is Some(v) for a
   put and None for a delete.  Result: the MemTable afterwards and the outcome. *)
MemTableWrite(mt, max, key, value) ==
  IF key = << >> THEN [mt |-> mt, res |-> "InvalidKey"]
  ELSE
    LET seq == mt.seq + 1
        entry == [key |-> key, value |-> value, seq |-> seq]
        esz == EntrySize(entry)
    IN IF WouldOverflow(mt.size, esz, max)
       THEN [mt |-> [mt EXCEPT !.seq = seq], res |-> "TableFull"]
       ELSE
         LET old == find_entry(mt.data, key)
             add == IF old.some THEN SaturatingSub(esz, EntrySize(old.v)) ELSE esz
         IN [mt |-> [data |-> insert_or_update(mt.data, entry),
                     size |-> mt.size + add,
                     seq |-> seq],
             res |-> "ok"]

MemTablePut(mt, max, key, value) == MemTableWrite(mt, max, key, Some(value))
MemTableDelete(mt, max, key) == MemTableWrite(mt, max, key, None)

MemTableGet(mt, key) ==
  LET e == find_entry(mt.data, key)
  IN IF e.some THEN e.v.value ELSE None

MemTableIsFull(mt, max) == mt.size >= max
MemTableIsEmpty(mt) == mt.data = << >>

----------------------------------------------------------------------------
(* WAL (src/src/wal.rs) *)

(* A WAL file is a sequence of frames.  A frame is what write_record puts on
   disk: the header fields key_len, value_len and sequence number followed by
   the key bytes and the value bytes.  A tombstone is written with
   value_len = 0 and no value bytes. *)
WalEncode(key, value, seq) ==
  [klen |-> Len(key),
   vlen |-> IF value.some THEN Len(value.v) ELSE 0,
   seq |-> seq,
   key |-> key,
   val |-> IF value.some THEN value.v ELSE << >>]

(* The size validation of read_record *)
SizeInvalid(klen, vlen) == klen > MaxKeyLen \/ vlen > MaxValueLen

(* How read_record turns the value bytes of a frame into Option<Vec<u8>> *)
WalDecodeValue(vlen, val) == IF vlen > 0 THEN Some(val) ELSE None

(* read_record on one frame: an error for an out-of-range header or for a key
   or value cut short, otherwise the record *)
read_record(f) ==
  IF SizeInvalid(f.klen, f.vlen) THEN [res |-> "InvalidRecord", rec |-> None]
  ELSE IF Len(f.key) < f.klen \/ Len(f.val) < f.vlen
       THEN [res |-> "Io", rec |-> None]
       ELSE [res |-> "ok",
             rec |-> Some([key |-> f.key,
                           value |-> WalDecodeValue(f.vlen, f.val),
                           seq |-> f.seq])]

(* The frames a reader gets through before the first one read_record rejects.
   After a rejected frame recover calls seek_to_next_record, which reads the
   rest of a file shorter than its 1024-byte buffer and then seeks forward
   from the end of what it read, so nothing after the rejected frame is
   replayed; recover_sequence_number stops at the first error. *)
RECURSIVE ReadablePrefix(_)
ReadablePrefix(frames) ==
  IF frames = << >> THEN << >>
  ELSE LET r == read_record(Head(frames))
       IN IF r.res # "ok" THEN << >>
          ELSE <<r.rec.v>> \o ReadablePrefix(Tail(frames))

Max(a, b) == IF a >= b THEN a ELSE b

RECURSIVE MaxSeq(_)
MaxSeq(recs) == IF recs = << >> THEN 0 ELSE Max(Head(recs).seq, MaxSeq(Tail(recs)))

(* WAL::recover_sequence_number *)
recover_sequence_number(frames) == MaxSeq(ReadablePrefix(frames))

(* WAL::recover: apply the records of one file to the MemTable, stopping with
   the MemTable's error when a put or delete is refused *)
RECURSIVE ReplayRecords(_, _, _)
ReplayRecords(recs, mt, max) ==
  IF recs = << >> THEN [mt |-> mt, res |-> "ok"]
  ELSE LET r == Head(recs)
           w == IF ~r.value.some
                THEN MemTableDelete(mt, max, r.key)
                ELSE MemTablePut(mt, max, r.key, r.value.v)
       IN IF w.res # "ok" THEN w
          ELSE ReplayRecords(Tail(recs), w.mt, max)

WalRecover(frames, mt, max) == ReplayRecords(ReadablePrefix(frames), mt, max)

----------------------------------------------------------------------------
(* SSTable (src/src/sstable.rs) *)

(* Size on disk of one data entry: 24-byte entry header, key, value *)
DiskEntrySize(e) == EntryHeaderSize + Len(e.key) + Len(e.val)

DataOffset == SSTableHeaderSize + BloomPlaceholderSize

(* Offset of the i-th data entry of a file *)
RECURSIVE EntryOffset(_, _)
EntryOffset(entries, i) ==
  IF i = 1 THEN DataOffset
  ELSE EntryOffset(entries, i - 1) + DiskEntrySize(entries[i - 1])

(* The data entry from_memtable writes for a MemTable entry: value_len is 0
   and no value bytes follow for a tombstone *)
SstEncode(e) ==
  [key |-> e.key, val |-> IF e.value.some THEN e.value.v ELSE << >>, seq |-> e.seq]

(* How SSTable::get turns the stored value bytes into its result *)
SstDecodeValue(val) == IF Len(val) > 0 THEN Some(val) ELSE None

(* The index from_memtable builds and read_index reads back *)
IndexOf(entries) ==
  [i \in 1..Len(entries) |-> [key |-> entries[i].key, offset |-> EntryOffset(entries, i)]]

(* The file from_memtable writes *)
SstFileOf(mt) ==
  [magic |-> TRUE, entries |-> [i \in 1..Len(mt.data) |-> SstEncode(mt.data[i])]]

(* The in-memory SSTable: its path (the timestamp in the file name), its
   index and the keys its bloom filter was fed.  A bloom filter may also
   answer true for other keys; SSTable::get then misses in the index. *)
SstObject(path, file) ==
  [path |-> path,
   index |-> IndexOf(file.entries),
   bloom |-> {file.entries[i].key : i \in 1..Len(file.entries)}]

might_contain(sst, key) == key \in sst.bloom

find_key(index, key) ==
  IF \E i \in 1..Len(index) : index[i].key = key
  THEN Some(index[CHOOSE i \in 1..Len(index) : index[i].key = key])
  ELSE None

(* SSTable::get: bloom filter, index, then the data entry read from the file
   at the indexed offset.  The file is the one the path names now.  An offset
   that is not the start of an entry of that file, or an entry with another
   key, gives an error. *)
SSTableGet(sst, file, key) ==
  IF ~might_contain(sst, key) THEN [res |-> "ok", val |-> None]
  ELSE LET ie == find_key(sst.index, key)
       IN IF ~ie.some THEN [res |-> "ok", val |-> None]
          ELSE LET at == {i \in 1..Len(file.entries) :
                            EntryOffset(file.entries, i) = ie.v.offset}
               IN IF at = {} THEN [res |-> "Io", val |-> None]
                  ELSE LET e == file.entries[CHOOSE i \in at : TRUE]
                       IN IF e.key # key THEN [res |-> "InvalidIndex", val |-> None]
                          ELSE [res |-> "ok", val |-> SstDecodeValue(e.val)]

(* SSTable::open: fails on a file whose header cannot be read *)
SSTableOpenOk(file) == file.magic

----------------------------------------------------------------------------
(* Bytes and the bloom filter (src/src/sstable.rs)

   The engine model above keeps an SSTable as a list of entries and its
   bloom filter as the set of keys fed to it.  The definitions from here to
   the compaction engine keep the file as the bytes the code writes, and the
   bloom filter as its bit vector, so that what SSTable::from_memtable,
   SSTable::open, SSTable::get and the compaction engine do with offsets and
   lengths is computed and not assumed. *)

Zeros(n) == [i \in 1..n |-> 0]

(* n.to_le_bytes() for a w-byte unsigned integer *)
RECURSIVE ToLe(_, _)
ToLe(n, w) == IF w = 0 THEN << >> ELSE <<n % 256>> \o ToLe(n \div 256, w - 1)

(* uN::from_le_bytes when the value fits the model's integers; HugeLen
   otherwise (a length no file of the model reaches) *)
HugeLen == 1000000

RECURSIVE FromLe(_)
FromLe(bytes) ==
  IF bytes = << >> THEN 0
  ELSE LET rest == FromLe(Tail(bytes))
       IN IF rest >= HugeLen \div 256 THEN HugeLen ELSE Head(bytes) + 256 * rest

RECURSIVE Pow2(_)
Pow2(n) == IF n = 0 THEN 1 ELSE 2 * Pow2(n - 1)

TestBit(byte, off) == (byte \div Pow2(off)) % 2 = 1
SetBit(byte, off) == IF TestBit(byte, off) THEN byte ELSE byte + Pow2(off)

(* a ^ b on bytes *)
RECURSIVE XorByte(_, _, _)
XorByte(a, b, n) ==
  IF n = 0 THEN 0
  ELSE ((a + b) % 2) + 2 * XorByte(a \div 2, b \div 2, n - 1)

(* usize values are kept as UsizeBytes little-endian bytes *)
UsizeBytes == 8
FnvOffset == <<197, 157, 28, 129>> \o Zeros(UsizeBytes - 4)   \* 0x811c9dc5
FnvPrime == <<147, 1, 0, 1>> \o Zeros(UsizeBytes - 4)         \* 0x01000193

(* Byte k (from 0) of a * b before carries *)
MulColumn(a, b, k) ==
  LET term[j \in 0..k] ==
        a[k - j + 1] * b[j + 1] + (IF j = 0 THEN 0 ELSE term[j - 1])
  IN term[k]

(* a.wrapping_mul(b) *)
RECURSIVE MulFrom(_, _, _, _)
MulFrom(a, b, k, carry) ==
  IF k = UsizeBytes THEN << >>
  ELSE LET s == MulColumn(a, b, k) + carry
       IN <<s % 256>> \o MulFrom(a, b, k + 1, s \div 256)

WrappingMul(a, b) == MulFrom(a, b, 0, 0)

(* a.wrapping_add(n) for a small n *)
RECURSIVE AddFrom(_, _)
AddFrom(a, carry) ==
  IF a = << >> THEN << >>
  ELSE LET s == Head(a) + carry
       IN <<s % 256>> \o AddFrom(Tail(a), s \div 256)

WrappingAdd(a, n) == AddFrom(a, n)

(* a % m for a small m *)
RECURSIVE ModFrom(_, _, _)
ModFrom(a, i, m) ==
  IF i = 0 THEN 0
  ELSE (ModFrom(a, i - 1, m) * 256 + a[Len(a) - i + 1]) % m

UsizeMod(a, m) == ModFrom(a, Len(a), m)

(* BloomFilter::hash *)
RECURSIVE HashFrom(_, _)
HashFrom(hash, key) ==
  IF key = << >> THEN hash
  ELSE LET x == [hash EXCEPT ![1] = XorByte(@, Head(key), 8)]
       IN HashFrom(WrappingMul(x, FnvPrime), Tail(key))

(* The keys CompactionEngine::compact_sstables looks for
   (src/src/compaction.rs) *)
Key1 == <<107, 101, 121, 49>>                      \* b"key1"
Key2 == <<107, 101, 121, 50>>                      \* b"key2"
Apple == <<97, 112, 112, 108, 101>>                \* b"apple"
Banana == <<98, 97, 110, 97, 110, 97>>             \* b"banana"
Cherry == <<99, 104, 101, 114, 114, 121>>          \* b"cherry"
Zebra == <<122, 101, 98, 114, 97>>                 \* b"zebra"
TestKey == <<116, 101, 115, 116, 95, 107, 101, 121>>  \* b"test_key"

(* format!("key_{:03}", j).into_bytes() *)
NumberedKey(j) ==
  <<107, 101, 121, 95, 48 + (j \div 100), 48 + ((j \div 10) % 10), 48 + (j % 10)>>

NumberedKeys == 100

ProbedKeys ==
  {Key1, Key2, Apple, Banana, Cherry, Zebra, TestKey}
    \cup {NumberedKey(j) : j \in 0..(NumberedKeys - 1)}

(* The hashes of the probed keys, computed once *)
ProbedHashes == [key \in ProbedKeys |-> HashFrom(FnvOffset, key)] @@ << >>

(* The hash before the seed is added *)
KeyHash(key) ==
  IF key \in ProbedKeys THEN ProbedHashes[key] ELSE HashFrom(FnvOffset, key)

BloomHash(key, seed) == WrappingAdd(KeyHash(key), seed)

(* BloomFilter::new *)
HashCount == 3
BitsPerEntry == 10
DivCeil(a, b) == (a + b - 1) \div b
BloomNew(size) == [bits |-> Zeros(DivCeil(size, 8)), size |-> size]

(* The bit positions of a key *)
BitIndexOf(hash, seed, size) == UsizeMod(WrappingAdd(hash, seed), size)
BloomBitIndex(key, seed, size) == BitIndexOf(KeyHash(key), seed, size)
BloomBitIndexes(key, size) ==
  LET hash == KeyHash(key)
  IN {BitIndexOf(hash, i, size) : i \in 0..(HashCount - 1)}

(* The byte that has exactly the bits offs set on top of those of byte *)
RECURSIVE SetBits(_, _)
SetBits(byte, offs) ==
  IF offs = {} THEN byte
  ELSE LET o == CHOOSE x \in offs : TRUE
       IN SetBits(SetBit(byte, o), offs \ {o})

(* The bit vector with the bits idx set *)
SetAll(bits, idx) ==
  [b \in 1..Len(bits) |-> SetBits(bits[b], {i % 8 : i \in {j \in idx : j \div 8 = b - 1}})]

(* BloomFilter::add *)
BloomAdd(bf, key) == [bf EXCEPT !.bits = SetAll(@, BloomBitIndexes(key, bf.size))]

(* BloomFilter::might_contain, hash by hash: "panic" stands for the division
   by zero of an empty filter and for an index past the end of the bit
   vector *)
RECURSIVE MightContainFrom(_, _, _)
MightContainFrom(bf, hash, i) ==
  IF i = HashCount THEN "yes"
  ELSE LET bit == BitIndexOf(hash, i, bf.size)
       IN IF bit \div 8 >= Len(bf.bits) THEN "panic"
          ELSE IF ~TestBit(bf.bits[(bit \div 8) + 1], bit % 8) THEN "no"
          ELSE MightContainFrom(bf, hash, i + 1)

BloomMightContain(bf, key) ==
  IF bf.size = 0 THEN "panic" ELSE MightContainFrom(bf, KeyHash(key), 0)

----------------------------------------------------------------------------
(* The SSTable file, byte by byte (src/src/sstable.rs)

   A file is its header fields and the bytes that follow the
   SSTableHeaderSize header bytes.  An entry of a MemTable or of the
   compaction engine is [key, value, seq]; the 8 timestamp bytes of an entry
   are written as zeros, no code reads them back. *)

(* The concatenation of the sequences seqs[a..b] *)
RECURSIVE ConcatRange(_, _, _)
ConcatRange(seqs, a, b) ==
  IF a > b THEN << >>
  ELSE IF a = b THEN seqs[a]
  ELSE LET m == (a + b) \div 2
       IN ConcatRange(seqs, a, m) \o ConcatRange(seqs, m + 1, b)

Concat(seqs) == ConcatRange(seqs, 1, Len(seqs))

ValueBytes(value) == IF value.some THEN value.v ELSE << >>

(* The bytes of one data entry: key_len, value_len, timestamp, sequence
   number, key, value *)
EntryBytes(e) ==
  ToLe(Len(e.key), 4) \o ToLe(Len(ValueBytes(e.value)), 4) \o Zeros(8)
    \o ToLe(e.seq, 8) \o e.key \o ValueBytes(e.value)

(* The bytes the entries a..b take *)
RECURSIVE DataLen(_, _, _)
DataLen(entries, a, b) ==
  IF a > b THEN 0
  ELSE IF a = b THEN Len(EntryBytes(entries[a]))
  ELSE LET m == (a + b) \div 2
       IN DataLen(entries, a, m) + DataLen(entries, m + 1, b)

(* SSTableIndex as the writers build it: entry_start of every entry, the
   first one at start *)
BuildIndex(entries, start) ==
  [i \in 1..Len(entries) |->
     [key |-> entries[i].key, offset |-> start + DataLen(entries, 1, i - 1),
      key_size |-> Len(entries[i].key),
      value_size |-> Len(ValueBytes(entries[i].value))]]

(* SSTable::write_index *)
IndexEntryBytes(ie) ==
  ToLe(Len(ie.key), 4) \o ie.key \o ToLe(ie.offset, 8) \o ToLe(ie.key_size, 4)
    \o ToLe(ie.value_size, 4)

write_index(index) ==
  ToLe(Len(index), 4) \o Concat([i \in 1..Len(index) |-> IndexEntryBytes(index[i])])

(* SSTableFooter::write *)
FooterBytes(data_size, index_size) ==
  ToLe(0, 4) \o ToLe(data_size, 8) \o ToLe(index_size, 8) \o Zeros(12)

(* seek(pos) then write_all(bytes) on the bytes after the header *)
WriteAt(body, pos, bytes) ==
  LET at == pos - SSTableHeaderSize
      n == Max(Len(body), at + Len(bytes))
  IN [i \in 1..n |->
        IF i > at /\ i <= at + Len(bytes) THEN bytes[i - at]
        ELSE IF i <= Len(body) THEN body[i] ELSE 0]

(* bloom_filter.add(&entry.key) for every entry, in the loop of the writers:
   the bits of all the keys end up set *)
BloomAddAll(bf, entries) ==
  [bf EXCEPT !.bits =
     SetAll(@, UNION {BloomBitIndexes(entries[i].key, bf.size) : i \in 1..Len(entries)})]

(* What SSTable::from_memtable and write_compacted_sstable write for a
   non-empty list of entries, given the size of the bloom filter placeholder:
   placeholder, data, index, footer, then the bloom filter bits written over
   the placeholder, then the header *)
WriteSSTable(entries, placeholder) ==
  LET bloom_filter_offset == SSTableHeaderSize
      data_offset == bloom_filter_offset + placeholder
      data == Concat([i \in 1..Len(entries) |-> EntryBytes(entries[i])])
      index == BuildIndex(entries, data_offset)
      index_offset == data_offset + Len(data)
      index_bytes == write_index(index)
      bloom == BloomAddAll(BloomNew(Len(entries) * BitsPerEntry), entries)
      body == Zeros(placeholder) \o data \o index_bytes
                \o FooterBytes(Len(data), Len(index_bytes))
      header == [magic |-> TRUE, entry_count |-> Len(entries),
                 index_offset |-> index_offset,
                 bloom_filter_offset |-> bloom_filter_offset,
                 data_offset |-> data_offset]
  IN [file |-> [header |-> header, body |-> WriteAt(body, bloom_filter_offset, bloom.bits)],
      sst |-> [header |-> header, index |-> index, bloom |-> bloom]]

NoSSTable == [header |-> [magic |-> FALSE, entry_count |-> 0, index_offset |-> 0,
                          bloom_filter_offset |-> 0, data_offset |-> 0],
              index |-> << >>, bloom |-> BloomNew(0)]

(* A file created and truncated, nothing written *)
EmptyFile == [header |-> NoSSTable.header, body |-> << >>]

(* SSTable::from_memtable *)
from_memtable(mt) ==
  IF mt.data = << >> THEN [res |-> "InvalidFormat", file |-> EmptyFile, sst |-> NoSSTable]
  ELSE LET w == WriteSSTable(mt.data, BloomPlaceholderSize)
       IN [res |-> "ok", file |-> w.file, sst |-> w.sst]

(* read_exact of n bytes at offset pos *)
FileLen(file) == IF file.header.magic THEN SSTableHeaderSize + Len(file.body) ELSE Len(file.body)

ReadExact(file, pos, n) ==
  IF pos < SSTableHeaderSize \/ pos + n > FileLen(file)
  THEN [ok |-> FALSE, bytes |-> << >>]
  ELSE [ok |-> TRUE,
        bytes |-> SubSeq(file.body, pos - SSTableHeaderSize + 1, pos - SSTableHeaderSize + n)]

(* One turn of the loop of SSTable::read_index, reading at pos *)
ReadIndexEntry(file, pos) ==
  LET kl == ReadExact(file, pos, 4)
      klen == FromLe(kl.bytes)
      rest == ReadExact(file, pos + 4, klen + 16)
  IN IF ~kl.ok \/ ~rest.ok THEN [ok |-> FALSE, entries |-> << >>, end |-> pos]
     ELSE [ok |-> TRUE,
           entries |-> <<[key |-> SubSeq(rest.bytes, 1, klen),
                          offset |-> FromLe(SubSeq(rest.bytes, klen + 1, klen + 8)),
                          key_size |-> FromLe(SubSeq(rest.bytes, klen + 9, klen + 12)),
                          value_size |-> FromLe(SubSeq(rest.bytes, klen + 13, klen + 16))]>>,
           end |-> pos + 4 + klen + 16]

(* n turns of the loop, the first half and then the second half from where
   the first half stopped *)
RECURSIVE ReadIndexEntries(_, _, _)
ReadIndexEntries(file, pos, n) ==
  IF n = 0 THEN [ok |-> TRUE, entries |-> << >>, end |-> pos]
  ELSE IF n = 1 THEN ReadIndexEntry(file, pos)
  ELSE LET a == ReadIndexEntries(file, pos, n \div 2)
       IN IF ~a.ok THEN a
          ELSE LET b == ReadIndexEntries(file, a.end, n - (n \div 2))
               IN IF ~b.ok THEN b
                  ELSE [ok |-> TRUE, entries |-> a.entries \o b.entries, end |-> b.end]

(* SSTable::read_index *)
read_index(file, pos, entry_count) ==
  LET c == ReadExact(file, pos, 4)
  IN IF ~c.ok \/ FromLe(c.bytes) # entry_count
     THEN [ok |-> FALSE, entries |-> << >>, end |-> pos]
     ELSE ReadIndexEntries(file, pos + 4, entry_count)

(* A reader that sizes the filter at one byte per entry *)
OpenBloomSizeMut(entry_count) == entry_count * 8

(* The size in bits SSTable::open gives the bloom filter it reads back *)
OpenBloomSize(entry_count) == entry_count * BitsPerEntry

(* SSTable::open *)
sstable_open(file) ==
  IF ~file.header.magic THEN [res |-> "InvalidFormat", sst |-> NoSSTable]
  ELSE
    LET h == file.header
        bloom_filter_size == SaturatingSub(h.index_offset, h.bloom_filter_offset)
        bits == ReadExact(file, h.bloom_filter_offset, bloom_filter_size)
        index == read_index(file, h.index_offset, h.entry_count)
    IN IF ~bits.ok \/ ~index.ok THEN [res |-> "Io", sst |-> NoSSTable]
       ELSE [res |-> "ok",
             sst |-> [header |-> h, index |-> index.entries,
                      bloom |-> [bits |-> bits.bytes,
                                 size |-> OpenBloomSize(h.entry_count)]]]

(* The key of the data entry at offset, read as SSTable::get reads it: the
   entry header, then key_len bytes; None when a read fails *)
StoredKeyAt(file, offset) ==
  LET head == ReadExact(file, offset, EntryHeaderSize)
      key_len == FromLe(SubSeq(head.bytes, 1, 4))
      stored_key == ReadExact(file, offset + EntryHeaderSize, key_len)
  IN IF head.ok /\ stored_key.ok THEN Some(stored_key.bytes) ELSE None

(* SSTable::get on the table object sst whose file handle reads file *)
sstable_get(sst, file, key) ==
  LET mc == BloomMightContain(sst.bloom, key)
  IN IF mc = "panic" THEN [res |-> "panic", val |-> None]
     ELSE IF mc = "no" THEN [res |-> "ok", val |-> None]
     ELSE
       LET ie == find_key(sst.index, key)
       IN IF ~ie.some THEN [res |-> "ok", val |-> None]
          ELSE
            LET head == ReadExact(file, ie.v.offset, EntryHeaderSize)
                key_len == FromLe(SubSeq(head.bytes, 1, 4))
                value_len == FromLe(SubSeq(head.bytes, 5, 8))
                stored_key == ReadExact(file, ie.v.offset + EntryHeaderSize, key_len)
                value == ReadExact(file, ie.v.offset + EntryHeaderSize + key_len, value_len)
            IN IF ~head.ok THEN [res |-> "Io", val |-> None]
               ELSE IF ~stored_key.ok THEN [res |-> "Io", val |-> None]
               ELSE IF stored_key.bytes # key THEN [res |-> "InvalidIndex", val |-> None]
               ELSE IF value_len > 0
                    THEN IF value.ok THEN [res |-> "ok", val |-> Some(value.bytes)]
                         ELSE [res |-> "Io", val |-> None]
                    ELSE [res |-> "ok", val |-> None]

----------------------------------------------------------------------------
(* Compaction (src/src/compaction.rs) *)

CompactionEntry(key, value, sequence_number, source_sstable) ==
  [key |-> key, value |-> value, seq |-> sequence_number, source |-> source_sstable]

(* The probes of compact_sstables on the input at position i (from 0) of
   the list, in the order of the code: the key, the number the entry gets as
   its sequence number, and whether Ok(None) is pushed as a tombstone (the
   first probe of key1 only) *)
Probe(key, seq, tombstone) == [key |-> key, seq |-> seq, tombstone |-> tombstone]
Probes(i) ==
  <<Probe(Key1, i, TRUE),
    Probe(Key2, i + 1000, FALSE),
    Probe(Apple, i + 2000, FALSE),
    Probe(Banana, i + 2001, FALSE),
    Probe(Cherry, i + 2002, FALSE),
    Probe(Zebra, i + 2003, FALSE),
    Probe(Key1, i + 3000, FALSE)>>
    \o [j \in 1..NumberedKeys |-> Probe(NumberedKey(j - 1), i * 1000 + (j - 1), FALSE)]
    \o <<Probe(TestKey, i + 4000, FALSE)>>

(* if let Ok(Some(value)) = temp_sstable.get(key) { push }, and for the
   first probe of key1: else if let Ok(None) = .. { push a tombstone } *)
ProbeEntries(sst, file, probe, i) ==
  LET g == sstable_get(sst, file, probe.key)
  IN IF g.res = "ok" /\ (g.val.some \/ probe.tombstone)
     THEN <<CompactionEntry(probe.key, g.val, probe.seq, i)>>
     ELSE << >>

(* The entries compact_sstables collects from the input at position i (from
   0) of the list, in the order it pushes them *)
CollectEntries(sst, file, i) ==
  LET probes == Probes(i)
  IN Concat([p \in 1..Len(probes) |-> ProbeEntries(sst, file, probes[p], i)])

(* The comparison of the sort in remove_tombstones_and_duplicates: key
   ascending, then sequence number descending *)
EntryBefore(a, b) ==
  \/ KeyLess(a.key, b.key)
  \/ a.key = b.key /\ a.seq > b.seq

(* entries.sort_by(..): a stable sort *)
SortEntries(entries) ==
  LET n == Len(entries)
      rank == << >> \o [a \in 1..n |->
                Cardinality({b \in 1..n :
                    \/ EntryBefore(entries[b], entries[a])
                    \/ ~EntryBefore(entries[a], entries[b]) /\ b < a})]
  IN [r \in 1..n |-> entries[CHOOSE a \in 1..n : rank[a] = r - 1]]

(* The elements of a sequence at the positions idx, in order *)
SelectAt(seq, idx) ==
  [t \in 1..Cardinality(idx) |->
     seq[CHOOSE r \in idx : Cardinality({x \in idx : x < r}) = t - 1]]

(* The first entry of every key after the sort, tombstones kept *)
KeepFirstPerKey(entries) ==
  LET sorted == SortEntries(entries)
  IN SelectAt(sorted, {r \in 1..Len(sorted) : r = 1 \/ sorted[r - 1].key # sorted[r].key})

(* CompactionEngine::remove_tombstones_and_duplicates *)
remove_tombstones_and_duplicates(entries) ==
  LET sorted == SortEntries(entries)
      first == {r \in 1..Len(sorted) : r = 1 \/ sorted[r - 1].key # sorted[r].key}
  IN SelectAt(sorted, {r \in first : sorted[r].value.some})

(* CompactionEngine::write_compacted_sstable: the bloom filter placeholder
   has the size of the bloom filter *)
write_compacted_sstable(entries) ==
  IF entries = << >> THEN [res |-> "InvalidInput", file |-> EmptyFile]
  ELSE [res |-> "ok",
        file |-> WriteSSTable(entries, DivCeil(Len(entries) * BitsPerEntry, 8)).file]

(* The result of the two SSTable::open calls and of the probes on the input
   at position i *)
CollectInput(file, i) ==
  LET o == sstable_open(file)
  IN IF o.res # "ok" THEN [res |-> "SSTable", entries |-> << >>]
     ELSE [res |-> "ok", entries |-> CollectEntries(o.sst, file, i)]

(* CompactionEngine::compact_sstables on the files of input_paths: the
   outcome and, when the output file was created, what it holds *)
compact_sstables(files) ==
  IF files = << >> THEN [res |-> "InvalidInput", written |-> FALSE, file |-> EmptyFile]
  ELSE
    LET got == [i \in 1..Len(files) |-> CollectInput(files[i], i - 1)]
    IN IF \E i \in 1..Len(files) : got[i].res # "ok"
       THEN [res |-> "SSTable", written |-> FALSE, file |-> EmptyFile]
       ELSE
         LET all_entries == Concat([i \in 1..Len(files) |-> got[i].entries])
             final_entries == remove_tombstones_and_duplicates(all_entries)
             w == write_compacted_sstable(final_entries)
         IN [res |-> w.res, written |-> TRUE, file |-> w.file]

----------------------------------------------------------------------------
(* Engine (src/src/engine.rs) *)

VARIABLES
  memSize,     \* config.memtable_size, the same for every run on the directory
  clock,       \* the wall clock in milliseconds
  walFiles,    \* data directory: WAL file id -> frames; 0 is wal.log, t is wal_<t>.log
  sstFiles,    \* data directory: t -> contents of sstable_<t>.sst
  status,      \* "down": no Engine instance; "open": an instance exists
  wal,         \* Engine.wal: the path it appends to and its sequence number
  memtable,    \* Engine.memtable
  sstables,    \* Engine.sstables, newest first
  engSeq,      \* Engine.sequence_number
  last,        \* the last call other than a successful get, and what it returned
  acked,       \* per key, the last mutation a caller saw succeed (any run)
  runAck,      \* per key, the last mutation acknowledged by the current instance
  closed,      \* close() has returned and nothing was written since
  preClose,    \* per key, what get returned just before the last close()
  shutdown,    \* how the previous instance ended: "none", "crash" or "close"
  opCount,     \* number of put/delete calls made so far
  opLimit,     \* how many put/delete calls a behaviour makes at most
  corrupted,   \* number of times the files were damaged from outside
  runs,        \* number of times the engine was opened
  runLimit,    \* how many times a behaviour opens the engine at most
  wlog,        \* a WAL on its own: the frames of its file and its sequence number
  direct,      \* the MemTable that received the same operations as wlog
  replay,      \* what WAL::recover made of wlog in a fresh MemTable
  tail,        \* the bytes that follow the complete records in the file of wlog
  pool,        \* the MemTables a test may flush into SSTable files
  disk,        \* SSTable files byte by byte: path -> file
  mems,        \* path -> the MemTable SSTable::from_memtable wrote it from
  table,       \* the SSTable object in hand, built or opened
  looked,      \* the last SSTable::get on table and its answer
  compacted,   \* the last CompactionEngine::compact_sstables call, and the
               \* compaction of its output by a second engine
  served,      \* an engine read by several threads: its MemTable and SSTables
  gets,        \* per reader thread, where it stands in Engine::get
  sstLock,     \* the thread that holds the write lock on Engine.sstables, or 0
  cursor,      \* per SSTable of served, the position of its file handle
  shared,      \* a MemTable written by several threads: data, size_bytes, sequence_number
  puts,        \* per writer thread, where it stands in MemTable::put
  dataLock,    \* the thread that holds the write lock on MemTable.data, or 0
  calls,       \* per caller thread of a MemTable, the call it is in and where
  locks        \* the RwLocks of MemTable.data, size_bytes and sequence_number

engineVars == <<memSize, clock, walFiles, sstFiles, status, wal, memtable, sstables,
                engSeq, last, acked, runAck, closed, preClose, shutdown, opCount,
                opLimit, corrupted, runs, runLimit>>

walVars == <<wlog, direct, replay, tail>>

(* The variables of the components exercised on their own *)
sstVars == <<pool, disk, mems, table, looked, compacted>>

(* The variables of the components used by several threads *)
readVars == <<served, gets, sstLock, cursor>>
writeVars == <<shared, puts, dataLock, calls, locks>>
concVars == <<readVars, writeVars>>

benchVars == <<walVars, sstVars, concVars>>

vars == <<engineVars, benchVars>>

WalLog == 0

NoAck == [kind |-> "none", v |-> << >>]
PutAck(v) == [kind |-> "put", v |-> v]
DelAck == [kind |-> "del", v |-> << >>]

NoCall == [op |-> "none", key |-> << >>, val |-> None, res |-> "ok", got |-> None]
Call(op, key, val, res, got) ==
  [op |-> op, key |-> key, val |-> val, res |-> res, got |-> got]

(* The engine state an operation works on *)
EngineState ==
  [walFiles |-> walFiles, sstFiles |-> sstFiles, wal |-> wal,
   memtable |-> memtable, sstables |-> sstables]

(* An engine that lets the empty key through *)
KeyRejectedMut(key) == FALSE

(* The empty-key test at the head of Engine::put, get and delete *)
KeyRejected(key) == key = << >>

(* WAL::new: create the file if absent, recover the sequence number *)
WalNew(files, path) ==
  LET fs == IF path \in DOMAIN files THEN files ELSE (path :> << >>) @@ files
  IN [files |-> fs, wal |-> [path |-> path, seq |-> recover_sequence_number(fs[path])]]

(* WAL::put / WAL::delete through write_record: the record gets sequence
   number + 1 and is appended to the file *)
WalAppend(S, key, value) ==
  LET seq == S.wal.seq + 1
  IN [S EXCEPT !.walFiles[S.wal.path] = Append(@, WalEncode(key, value, seq)),
               !.wal.seq = seq]

(* Engine::rotate_wal with the clock reading t *)
rotate_wal(S, t) ==
  LET w == WalNew(S.walFiles, t)
  IN [S EXCEPT !.walFiles = w.files, !.wal = w.wal]

(* Where Engine::flush_memtable puts the new SSTable in the list *)
InsertSSTable(list, sst) == <<sst>> \o list

(* Engine::flush_memtable; t1 is the clock reading that names the SSTable
   and t2 the later one that names the new WAL *)
flush_memtable(S, t1, t2) ==
  LET file == SstFileOf(S.memtable)
      S1 == [S EXCEPT !.sstFiles = (t1 :> file) @@ @,
                      !.sstables = InsertSSTable(@, SstObject(t1, file)),
                      !.memtable = MemTableNew]
  IN rotate_wal(S1, t2)

(* Engine::put (value = Some(v)) and Engine::delete (value = None) *)
EngineWrite(S, max, key, value, t1, t2) ==
  IF KeyRejected(key) THEN [S |-> S, res |-> "InvalidConfig"]
  ELSE
    LET S1 == WalAppend(S, key, value)
        w == MemTableWrite(S1.memtable, max, key, value)
        S2 == [S1 EXCEPT !.memtable = w.mt]
    IN IF w.res # "ok" THEN [S |-> S2, res |-> w.res]
       ELSE IF MemTableIsFull(S2.memtable, max)
            THEN [S |-> flush_memtable(S2, t1, t2), res |-> "ok"]
            ELSE [S |-> S2, res |-> "ok"]

(* The probe of the SSTable list in Engine::get: the first table that
   answers Ok(Some(value)) decides; every other answer moves on *)
RECURSIVE ProbeSSTables(_, _, _)
ProbeSSTables(list, files, key) ==
  IF list = << >> THEN None
  ELSE LET r == SSTableGet(Head(list), files[Head(list).path], key)
       IN IF r.res = "ok" /\ r.val.some THEN r.val
          ELSE ProbeSSTables(Tail(list), files, key)

(* Engine::get *)
EngineGet(S, key) ==
  IF KeyRejected(key) THEN [res |-> "InvalidConfig", val |-> None]
  ELSE LET m == MemTableGet(S.memtable, key)
       IN IF m.some THEN [res |-> "ok", val |-> m]
          ELSE [res |-> "ok", val |-> ProbeSSTables(S.sstables, S.sstFiles, key)]

(* Engine::force_flush *)
force_flush(S, t1, t2) ==
  IF ~MemTableIsEmpty(S.memtable) THEN flush_memtable(S, t1, t2) ELSE S

RECURSIVE SortAsc(_)
SortAsc(ids) ==
  IF ids = {} THEN << >>
  ELSE LET m == CHOOSE x \in ids : \A y \in ids : x <= y
       IN <<m>> \o SortAsc(ids \ {m})

RECURSIVE SortDesc(_)
SortDesc(ids) ==
  IF ids = {} THEN << >>
  ELSE LET m == CHOOSE x \in ids : \A y \in ids : x >= y
       IN <<m>> \o SortDesc(ids \ {m})

(* The order in which recover_from_wal replays the WAL files: ascending file
   name timestamp, wal.log counting as 0 *)
ReplayOrder(files) == SortAsc(DOMAIN files)

(* The loop of Engine::recover_from_wal over the sorted WAL files *)
RECURSIVE ReplayFiles(_, _, _, _)
ReplayFiles(order, files, mt, max) ==
  IF order = << >> THEN [mt |-> mt, res |-> "ok"]
  ELSE LET r == WalRecover(files[Head(order)], mt, max)
       IN IF r.res # "ok" THEN r
          ELSE ReplayFiles(Tail(order), files, r.mt, max)

(* Engine::load_existing_sstables: newest first, unreadable files skipped *)
RECURSIVE LoadSSTables(_, _)
LoadSSTables(order, files) ==
  IF order = << >> THEN << >>
  ELSE LET t == Head(order)
       IN (IF SSTableOpenOk(files[t]) THEN <<SstObject(t, files[t])>> ELSE << >>)
          \o LoadSSTables(Tail(order), files)

(* Engine::with_config on the data directory *)
EngineOpen(wfiles, sfiles, max) ==
  LET w == WalNew(wfiles, WalLog)
      order == ReplayOrder(w.files)
      r == ReplayFiles(order, w.files, MemTableNew, max)
  IN [res |-> r.res,
      walFiles |-> w.files,
      wal |-> w.wal,
      memtable |-> r.mt,
      engSeq |-> recover_sequence_number(w.files[order[Len(order)]]),
      sstables |-> LoadSSTables(SortDesc(DOMAIN sfiles), sfiles)]

----------------------------------------------------------------------------
(* The state machine *)

NoFiles == [t \in {} |-> << >>]

(* A fresh data directory and no engine; a behaviour makes at most ops
   put/delete calls and opens the engine at most opens times *)
EngineInitWith(ops, opens) ==
  /\ memSize \in MemSizes
  /\ clock = 1
  /\ walFiles = NoFiles
  /\ sstFiles = NoFiles
  /\ status = "down"
  /\ wal = [path |-> WalLog, seq |-> 0]
  /\ memtable = MemTableNew
  /\ sstables = << >>
  /\ engSeq = 0
  /\ last = NoCall
  /\ acked = [k \in Keys |-> NoAck]
  /\ runAck = [k \in Keys |-> NoAck]
  /\ closed = FALSE
  /\ preClose = [k \in Keys |-> None]
  /\ shutdown = "none"
  /\ opCount = 0
  /\ opLimit = ops
  /\ corrupted = 0
  /\ runs = 0
  /\ runLimit = opens

NotReplayed == [done |-> FALSE, res |-> "ok", mt |-> MemTableNew]

(* No WAL is exercised on its own *)
WalIdle ==
  /\ wlog = [frames |-> << >>, seq |-> 0]
  /\ direct = MemTableNew
  /\ replay = NotReplayed
  /\ tail = << >>

NoTable == [how |-> "none", path |-> 0, sst |-> NoSSTable]
NotLooked == [done |-> FALSE, key |-> << >>, res |-> "ok", val |-> None]
NotAgain == [done |-> FALSE, res |-> "ok"]
NotCompacted == [done |-> FALSE, res |-> "ok", inputs |-> << >>, again |-> NotAgain]

(* No SSTable file is exercised on its own: nothing to flush *)
SstIdleWith(memtables) ==
  /\ pool = memtables
  /\ disk = NoFiles
  /\ mems = NoFiles
  /\ table = NoTable
  /\ looked = NotLooked
  /\ compacted = NotCompacted

SstIdle == SstIdleWith({})

(* No engine is read and no MemTable is written by several threads *)
NoThreads == [t \in {} |-> 0]
ReadIdle ==
  /\ served = [mem |-> MemTableNew, tables |-> << >>]
  /\ gets = NoThreads
  /\ sstLock = 0
  /\ cursor = << >>
Unlocked == [writer |-> 0, readers |-> {}]
NoLocks == [data |-> Unlocked, size |-> Unlocked, seq |-> Unlocked]

WriteIdle ==
  /\ shared = MemTableNew
  /\ puts = NoThreads
  /\ dataLock = 0
  /\ calls = NoThreads
  /\ locks = NoLocks
ConcIdle == ReadIdle /\ WriteIdle

BenchIdle == WalIdle /\ SstIdle /\ ConcIdle

InitWith(ops, opens) == EngineInitWith(ops, opens) /\ BenchIdle

Init == InitWith(MaxOps, MaxRuns)

(* The clock readings a call can see after a first reading of clock *)
LaterReadings == {t \in {clock, clock + 1} : t <= MaxClock}

Install(S) ==
  /\ walFiles' = S.walFiles
  /\ sstFiles' = S.sstFiles
  /\ wal' = S.wal
  /\ memtable' = S.memtable
  /\ sstables' = S.sstables

(* Engine::new / Engine::with_config *)
Open ==
  /\ status = "down"
  /\ runs < runLimit
  /\ runs' = runs + 1
  /\ LET o == EngineOpen(walFiles, sstFiles, memSize)
     IN /\ walFiles' = o.walFiles
        /\ last' = Call("open", << >>, None, o.res, None)
        /\ IF o.res = "ok"
           THEN /\ status' = "open"
                /\ wal' = o.wal
                /\ memtable' = o.memtable
                /\ sstables' = o.sstables
                /\ engSeq' = o.engSeq
           ELSE UNCHANGED <<status, wal, memtable, sstables, engSeq>>
  /\ runAck' = [k \in Keys |-> NoAck]
  /\ closed' = FALSE
  /\ UNCHANGED <<memSize, opLimit, runLimit, corrupted, clock, sstFiles, acked, preClose, shutdown, opCount>>
  /\ UNCHANGED benchVars

(* Engine::put *)
Put(key, value) ==
  /\ status = "open"
  /\ key \in Keys => opCount < opLimit
  /\ \E t2 \in LaterReadings :
       LET r == EngineWrite(EngineState, memSize, key, Some(value), clock, t2)
       IN /\ Install(r.S)
          /\ last' = Call("put", key, Some(value), r.res, None)
          /\ IF r.res = "ok"
             THEN /\ acked' = [acked EXCEPT ![key] = PutAck(value)]
                  /\ runAck' = [runAck EXCEPT ![key] = PutAck(value)]
             ELSE UNCHANGED <<acked, runAck>>
          /\ clock' = IF Len(r.S.sstables) > Len(sstables) THEN t2 ELSE clock
  /\ opCount' = IF key \in Keys THEN opCount + 1 ELSE opCount
  /\ closed' = (closed /\ key \notin Keys)
  /\ preClose' = IF key \in Keys THEN [k \in Keys |-> None] ELSE preClose
  /\ shutdown' = IF key \in Keys THEN "none" ELSE shutdown
  /\ UNCHANGED <<memSize, opLimit, runLimit, corrupted, status, engSeq, runs>>
  /\ UNCHANGED benchVars

(* Engine::delete *)
Delete(key) ==
  /\ status = "open"
  /\ key \in Keys => opCount < opLimit
  /\ \E t2 \in LaterReadings :
       LET r == EngineWrite(EngineState, memSize, key, None, clock, t2)
       IN /\ Install(r.S)
          /\ last' = Call("delete", key, None, r.res, None)
          /\ IF r.res = "ok"
             THEN /\ acked' = [acked EXCEPT ![key] = DelAck]
                  /\ runAck' = [runAck EXCEPT ![key] = DelAck]
             ELSE UNCHANGED <<acked, runAck>>
          /\ clock' = IF Len(r.S.sstables) > Len(sstables) THEN t2 ELSE clock
  /\ opCount' = IF key \in Keys THEN opCount + 1 ELSE opCount
  /\ closed' = (closed /\ key \notin Keys)
  /\ preClose' = IF key \in Keys THEN [k \in Keys |-> None] ELSE preClose
  /\ shutdown' = IF key \in Keys THEN "none" ELSE shutdown
  /\ UNCHANGED <<memSize, opLimit, runLimit, corrupted, status, engSeq, runs>>
  /\ UNCHANGED benchVars

(* Engine::get *)
Get(key) ==
  /\ status = "open"
  /\ LET r == EngineGet(EngineState, key)
     IN last' = IF r.res = "ok" THEN last ELSE Call("get", key, None, r.res, r.val)
  /\ UNCHANGED <<memSize, opLimit, runLimit, corrupted, clock, walFiles, sstFiles, status, wal, memtable,
                 sstables, engSeq, acked, runAck, closed, preClose, shutdown,
                 opCount, runs>>
  /\ UNCHANGED benchVars

(* Engine::force_flush *)
ForceFlush ==
  /\ status = "open"
  /\ \E t2 \in LaterReadings :
       /\ Install(force_flush(EngineState, clock, t2))
       /\ clock' = IF MemTableIsEmpty(memtable) THEN clock ELSE t2
  /\ last' = Call("force_flush", << >>, None, "ok", None)
  /\ UNCHANGED <<memSize, opLimit, runLimit, corrupted, status, engSeq, acked, runAck, closed, preClose,
                 shutdown, opCount, runs>>
  /\ UNCHANGED benchVars

(* Engine::close *)
Close ==
  /\ status = "open"
  /\ preClose' = [k \in Keys |-> EngineGet(EngineState, k).val]
  /\ \E t2 \in LaterReadings :
       /\ Install(force_flush(EngineState, clock, t2))
       /\ clock' = IF MemTableIsEmpty(memtable) THEN clock ELSE t2
  /\ last' = Call("close", << >>, None, "ok", None)
  /\ closed' = TRUE
  /\ UNCHANGED <<memSize, opLimit, runLimit, corrupted, status, engSeq, acked, runAck, shutdown, opCount, runs>>
  /\ UNCHANGED benchVars

(* The Engine value is dropped: after close() a graceful shutdown, otherwise
   a crash.  Everything in memory is gone, the data directory stays. *)
Drop ==
  /\ status = "open"
  /\ status' = "down"
  /\ shutdown' = IF closed THEN "close" ELSE "crash"
  /\ wal' = [path |-> WalLog, seq |-> 0]
  /\ memtable' = MemTableNew
  /\ sstables' = << >>
  /\ engSeq' = 0
  /\ last' = Call("drop", << >>, None, "ok", None)
  /\ closed' = FALSE
  /\ UNCHANGED <<memSize, opLimit, runLimit, corrupted, clock, walFiles, sstFiles, acked, runAck, preClose,
                 opCount, runs>>
  /\ UNCHANGED benchVars

(* A millisecond passes *)
Tick ==
  /\ clock < MaxClock
  /\ clock' = clock + 1
  /\ UNCHANGED <<memSize, opLimit, runLimit, corrupted, walFiles, sstFiles, status, wal, memtable, sstables,
                 engSeq, last, acked, runAck, closed, preClose, shutdown,
                 opCount, runs>>
  /\ UNCHANGED benchVars

Next ==
  \/ Open
  \/ \E k \in Keys, v \in Values : Put(k, v)
  \/ \E k \in Keys : Delete(k)
  \/ \E k \in Keys : Get(k)
  \/ ForceFlush
  \/ Close
  \/ Drop
  \/ Tick

Spec == Init /\ [][Next]_vars

----------------------------------------------------------------------------
(* The same machine with callers that also pass the empty key *)

PutEmptyKey == \E v \in EmptyKeyValues : Put(EmptyKey, v)
DeleteEmptyKey == Delete(EmptyKey)
GetEmptyKey == Get(EmptyKey)

InitAnyKey == InitWith(MaxOpsAnyKey, MaxRunsAnyKey)

NextAnyKey ==
  \/ Next
  \/ PutEmptyKey
  \/ DeleteEmptyKey
  \/ GetEmptyKey

SpecAnyKey == InitAnyKey /\ [][NextAnyKey]_vars

----------------------------------------------------------------------------
(* The same machine with a data directory whose files are damaged while no
   engine is running *)

ZeroFrame == [klen |-> 0, vlen |-> 0, seq |-> 0, key |-> << >>, val |-> << >>]
OversizeFrame ==
  [klen |-> MaxKeyLen + 1, vlen |-> 0, seq |-> 0, key |-> << >>, val |-> << >>]
GarbageFrames == {ZeroFrame, OversizeFrame}

(* 24 bytes that look like a record header are appended to a WAL file *)
CorruptWal ==
  /\ status = "down"
  /\ corrupted < MaxCorrupt
  /\ corrupted' = corrupted + 1
  /\ \E id \in DOMAIN walFiles \cup {WalLog}, f \in GarbageFrames :
       walFiles' = (id :> Append(IF id \in DOMAIN walFiles THEN walFiles[id] ELSE << >>, f))
                   @@ walFiles
  /\ UNCHANGED <<memSize, clock, sstFiles, status, wal, memtable, sstables,
                 engSeq, last, acked, runAck, closed, preClose, shutdown,
                 opCount, opLimit, runs, runLimit>>
  /\ UNCHANGED benchVars

(* The header of an SSTable file is overwritten with bytes that are not the
   magic number *)
CorruptSst ==
  /\ status = "down"
  /\ corrupted < MaxCorrupt
  /\ corrupted' = corrupted + 1
  /\ \E t \in DOMAIN sstFiles : sstFiles' = [sstFiles EXCEPT ![t].magic = FALSE]
  /\ UNCHANGED <<memSize, clock, walFiles, status, wal, memtable, sstables,
                 engSeq, last, acked, runAck, closed, preClose, shutdown,
                 opCount, opLimit, runs, runLimit>>
  /\ UNCHANGED benchVars

NextCorrupt ==
  \/ Next
  \/ CorruptWal
  \/ CorruptSst

InitCorrupt == InitWith(MaxOpsCorrupt, MaxRuns)

SpecCorrupt == InitCorrupt /\ [][NextCorrupt]_vars

----------------------------------------------------------------------------
(* The same machine on a disk whose writes may fail: the WAL append of a put
   or delete returns an I/O error *)

(* What a failed write_record may leave in the file: the bytes that got out
   before the error, a frame whose key and value are cut short *)
TornFrame(key, value, seq) ==
  [WalEncode(key, value, seq) EXCEPT !.key = << >>, !.val = << >>]

(* write_record returning Err(Io): the sequence number is not advanced; the
   file has grown by a torn frame or not at all *)
WalAppendFailed(S, key, value, torn) ==
  IF torn
  THEN [S EXCEPT !.walFiles[S.wal.path] =
                   Append(@, TornFrame(key, value, S.wal.seq + 1))]
  ELSE S

(* An engine that goes on to the MemTable although the WAL append failed *)
AfterWalErrorMut(S, max, key, value, t1, t2) ==
  LET w == MemTableWrite(S.memtable, max, key, value)
      S2 == [S EXCEPT !.memtable = w.mt]
  IN IF w.res = "ok" /\ MemTableIsFull(S2.memtable, max)
     THEN [S |-> flush_memtable(S2, t1, t2), res |-> "Io"]
     ELSE [S |-> S2, res |-> "Io"]

(* The `?` after self.wal.put / self.wal.delete: the error is returned and
   nothing after it in Engine::put / Engine::delete runs *)
AfterWalError(S, max, key, value, t1, t2) == [S |-> S, res |-> "Io"]

(* Engine::put / Engine::delete when the WAL append fails *)
EngineWriteIo(S, max, key, value, t1, t2, torn) ==
  IF KeyRejected(key) THEN [S |-> S, res |-> "InvalidConfig"]
  ELSE AfterWalError(WalAppendFailed(S, key, value, torn), max, key, value, t1, t2)

(* Engine::put or Engine::delete (value = None) returning the WAL's error *)
WriteIoError(op, key, value) ==
  /\ status = "open"
  /\ opCount < opLimit
  /\ \E t2 \in LaterReadings, torn \in BOOLEAN :
       LET r == EngineWriteIo(EngineState, memSize, key, value, clock, t2, torn)
       IN /\ Install(r.S)
          /\ last' = Call(op, key, value, r.res, None)
          /\ clock' = IF Len(r.S.sstables) > Len(sstables) THEN t2 ELSE clock
  /\ opCount' = opCount + 1
  /\ closed' = FALSE
  /\ preClose' = [k \in Keys |-> None]
  /\ shutdown' = "none"
  /\ UNCHANGED <<memSize, opLimit, runLimit, corrupted, status, engSeq, runs,
                 acked, runAck>>
  /\ UNCHANGED benchVars

PutIoError == \E k \in Keys, v \in Values : WriteIoError("put", k, Some(v))
DeleteIoError == \E k \in Keys : WriteIoError("delete", k, None)

(* One engine instance from its start on: the calls that write, with and
   without a failing append, and the clock *)
NextIo ==
  \/ Open
  \/ \E k \in Keys, v \in Values : Put(k, v)
  \/ \E k \in Keys : Delete(k)
  \/ PutIoError
  \/ DeleteIoError
  \/ ForceFlush
  \/ Tick

InitIo == InitWith(MaxOpsIo, MaxRunsIo)

SpecIo == InitIo /\ [][NextIo]_vars

----------------------------------------------------------------------------
(* The same machine under a wall clock that may be set back, with restarts
   taken in one step *)

(* The wall clock is set back by a millisecond *)
ClockBack ==
  /\ clock > 1
  /\ clock' = clock - 1
  /\ UNCHANGED <<memSize, opLimit, runLimit, corrupted, walFiles, sstFiles, status,
                 wal, memtable, sstables, engSeq, last, acked, runAck, closed,
                 preClose, shutdown, opCount, runs>>
  /\ UNCHANGED benchVars

(* The Engine value is dropped and Engine::with_config runs again on the same
   data directory *)
Restart ==
  /\ status = "open"
  /\ runs < runLimit
  /\ runs' = runs + 1
  /\ shutdown' = IF closed THEN "close" ELSE "crash"
  /\ LET o == EngineOpen(walFiles, sstFiles, memSize)
     IN /\ walFiles' = o.walFiles
        /\ last' = Call("open", << >>, None, o.res, None)
        /\ IF o.res = "ok"
           THEN /\ status' = "open"
                /\ wal' = o.wal
                /\ memtable' = o.memtable
                /\ sstables' = o.sstables
                /\ engSeq' = o.engSeq
           ELSE /\ status' = "down"
                /\ wal' = [path |-> WalLog, seq |-> 0]
                /\ memtable' = MemTableNew
                /\ sstables' = << >>
                /\ engSeq' = 0
  /\ runAck' = [k \in Keys |-> NoAck]
  /\ closed' = FALSE
  /\ UNCHANGED <<memSize, opLimit, runLimit, corrupted, clock, sstFiles, acked,
                 preClose, opCount>>
  /\ UNCHANGED benchVars

NextClock ==
  \/ Next
  \/ ClockBack
  \/ Restart

InitClock == InitWith(MaxOpsClock, MaxRunsClock)

SpecClock == InitClock /\ [][NextClock]_vars

----------------------------------------------------------------------------
(* The same machine with callers whose puts and deletes all succeed: a call
   that would return an error is not made *)

PutOk == \E k \in Keys, v \in Values : Put(k, v) /\ last'.res = "ok"
DeleteOk == \E k \in Keys : Delete(k) /\ last'.res = "ok"

NextRetained ==
  \/ Open
  \/ PutOk
  \/ DeleteOk
  \/ \E k \in Keys : Get(k)
  \/ ForceFlush
  \/ Close
  \/ Drop
  \/ Tick

InitRetained == InitWith(MaxOpsRetained, MaxRunsRetained)

SpecRetained == InitRetained /\ [][NextRetained]_vars

----------------------------------------------------------------------------
(* A WAL on its own (src/src/wal.rs, test_wal_recovery): operations are
   appended to a WAL and applied to a MemTable directly; WAL::recover then
   replays the file into a fresh MemTable of the same capacity *)

MaxWalOps == 3
LargeMemTable == 1048576

InitWal == EngineInitWith(0, 0) /\ BenchIdle

(* WAL::put, and MemTable::put on the directly fed MemTable *)
WalPut(key, value) ==
  /\ Len(wlog.frames) < MaxWalOps
  /\ wlog' = [frames |-> Append(wlog.frames, WalEncode(key, Some(value), wlog.seq + 1)),
              seq |-> wlog.seq + 1]
  /\ direct' = MemTablePut(direct, LargeMemTable, key, value).mt
  /\ replay' = NotReplayed
  /\ UNCHANGED <<engineVars, concVars, sstVars, tail>>

(* WAL::delete, and MemTable::delete on the directly fed MemTable *)
WalDelete(key) ==
  /\ Len(wlog.frames) < MaxWalOps
  /\ wlog' = [frames |-> Append(wlog.frames, WalEncode(key, None, wlog.seq + 1)),
              seq |-> wlog.seq + 1]
  /\ direct' = MemTableDelete(direct, LargeMemTable, key).mt
  /\ replay' = NotReplayed
  /\ UNCHANGED <<engineVars, concVars, sstVars, tail>>

(* WAL::recover into MemTable::new(1024 * 1024) *)
WalReplay ==
  /\ ~replay.done
  /\ LET r == WalRecover(wlog.frames, MemTableNew, LargeMemTable)
     IN replay' = [done |-> TRUE, res |-> r.res, mt |-> r.mt]
  /\ UNCHANGED <<engineVars, concVars, wlog, direct, sstVars, tail>>

NextWal ==
  \/ \E k \in Keys, v \in Values : WalPut(k, v)
  \/ \E k \in Keys : WalDelete(k)
  \/ WalReplay

SpecWal == InitWal /\ [][NextWal]_vars

----------------------------------------------------------------------------
(* The sequence numbers of a WAL on its own (src/src/wal.rs,
   test_wal_sequence_numbers): records are written with write_record, put and
   delete, the file is reopened with WAL::new and truncated *)

MaxSeqOps == 3

(* The lengths of the keys written: one byte, and one byte more than the
   largest key read_record accepts *)
SeqKeyLens == {1, MaxKeyLen + 1}

(* The lengths of the values written: none (a delete) and one byte *)
SeqValueLens == {0, 1}

(* In this part a frame stands for a complete record on disk and carries the
   lengths of its key and value in place of the bytes: write_record, the size
   validation of read_record and recover_sequence_number use nothing else *)
SeqFrame(klen, vlen, seq) == [klen |-> klen, vlen |-> vlen, seq |-> seq]

(* WAL::write_record: a record whose number is not sequence_number + 1 is
   refused before anything is written; otherwise the frame is appended and
   the number becomes the sequence number *)
write_record(W, klen, vlen, seq) ==
  IF seq # W.seq + 1
  THEN [wal |-> W, res |-> "InvalidRecord"]
  ELSE [wal |-> [frames |-> Append(W.frames, SeqFrame(klen, vlen, seq)), seq |-> seq],
        res |-> "ok"]

(* The loop of recover_sequence_number over complete records: the largest
   number among the records before the first one read_record rejects *)
RECURSIVE SeqRecover(_)
SeqRecover(frames) ==
  IF frames = << >> \/ SizeInvalid(Head(frames).klen, Head(frames).vlen) THEN 0
  ELSE Max(Head(frames).seq, SeqRecover(Tail(frames)))

SeqIdle ==
  UNCHANGED <<memSize, clock, walFiles, sstFiles, status, wal, memtable, sstables,
              engSeq, acked, runAck, closed, preClose, shutdown, opCount, opLimit,
              corrupted, runs, runLimit, direct, replay, tail, sstVars, concVars>>

(* write_record with a record numbered by the caller *)
WriteRecord(klen, vlen, seq) ==
  /\ Len(wlog.frames) < MaxSeqOps
  /\ LET r == write_record(wlog, klen, vlen, seq)
     IN /\ wlog' = r.wal
        /\ last' = Call("write_record", << >>, None, r.res, None)
  /\ SeqIdle

(* WAL::put and WAL::delete (vlen = 0): the record is numbered
   sequence_number + 1 and handed to write_record *)
SeqAppend(klen, vlen) ==
  /\ Len(wlog.frames) < MaxSeqOps
  /\ LET r == write_record(wlog, klen, vlen, wlog.seq + 1)
     IN /\ wlog' = r.wal
        /\ last' = Call("append", << >>, None, r.res, None)
  /\ SeqIdle

(* The WAL is dropped and WAL::new opens the file again *)
SeqReopen ==
  /\ wlog' = [wlog EXCEPT !.seq = SeqRecover(wlog.frames)]
  /\ last' = Call("reopen", << >>, None, "ok", None)
  /\ SeqIdle

(* WAL::truncate *)
SeqTruncate ==
  /\ wlog' = [frames |-> << >>, seq |-> 0]
  /\ last' = Call("truncate", << >>, None, "ok", None)
  /\ SeqIdle

NextWalSeq ==
  \/ \E k \in SeqKeyLens, v \in SeqValueLens, n \in 0..(MaxSeqOps + 1) :
       WriteRecord(k, v, n)
  \/ \E k \in SeqKeyLens, v \in SeqValueLens : SeqAppend(k, v)
  \/ SeqReopen
  \/ SeqTruncate

SpecWalSeq == InitWal /\ [][NextWalSeq]_vars

----------------------------------------------------------------------------
(* A WAL file with a torn tail (src/src/wal.rs, test_wal_corruption_handling):
   complete records followed by the first bytes of a record whose write was
   cut, or by less than a header of garbage; WAL::recover reads the bytes *)

MaxTornOps == 2
WalHeaderSize == 24

(* The bytes write_record puts on disk for a frame: key_len, value_len,
   timestamp, sequence number, key, value *)
FrameBytes(f) ==
  ToLe(f.klen, 4) \o ToLe(f.vlen, 4) \o Zeros(8) \o ToLe(f.seq, 8) \o f.key \o f.val

(* The bytes of the file: the complete records, then the tail *)
WalFileBytes(frames, rest) ==
  Concat([i \in 1..Len(frames) |-> FrameBytes(frames[i])]) \o rest

(* The n bytes at offset from, or as many as the file has *)
Take(bytes, from, n) ==
  SubSeq(bytes, from + 1, IF from + n > Len(bytes) THEN Len(bytes) ELSE from + n)

(* A reader that takes a key or value cut short for what it is *)
PayloadMissingMut(bytes, from, n) == FALSE

(* read_exact of n bytes at offset from fails when the file ends before *)
PayloadMissing(bytes, from, n) == from + n > Len(bytes)

(* read_record at offset pos: end of file when no full header is left, an
   error for out-of-range lengths or a payload cut short, otherwise the
   record and the offset of the next one *)
read_record_at(bytes, pos) ==
  IF pos + WalHeaderSize > Len(bytes) THEN [res |-> "eof", rec |-> None, next |-> pos]
  ELSE
    LET klen == FromLe(SubSeq(bytes, pos + 1, pos + 4))
        vlen == FromLe(SubSeq(bytes, pos + 5, pos + 8))
        seq == FromLe(SubSeq(bytes, pos + 17, pos + 24))
        kat == pos + WalHeaderSize
        vat == kat + klen
    IN IF SizeInvalid(klen, vlen)
       THEN [res |-> "InvalidRecord", rec |-> None, next |-> kat]
       ELSE IF PayloadMissing(bytes, kat, klen) \/ (vlen > 0 /\ PayloadMissing(bytes, vat, vlen))
       THEN [res |-> "Io", rec |-> None, next |-> Len(bytes)]
       ELSE [res |-> "ok",
             rec |-> Some([key |-> Take(bytes, kat, klen),
                           value |-> WalDecodeValue(vlen, Take(bytes, vat, vlen)),
                           seq |-> seq]),
             next |-> vat + vlen]

(* The records the loop of WAL::recover reads from offset pos on: it ends at
   the end of the file, and after a record read_record rejects, where
   seek_to_next_record finds nothing to read in a file shorter than its
   buffer *)
RECURSIVE RecordsFrom(_, _)
RecordsFrom(bytes, pos) ==
  LET r == read_record_at(bytes, pos)
  IN IF r.res # "ok" THEN << >>
     ELSE <<r.rec.v>> \o RecordsFrom(bytes, r.next)

(* WAL::recover on the bytes of a file *)
recover(bytes, mt, max) == ReplayRecords(RecordsFrom(bytes, 0), mt, max)

TornIdle == UNCHANGED <<engineVars, concVars, sstVars, direct>>

(* WAL::put / WAL::delete (value = None) while the file is intact *)
TornAppend(key, value) ==
  /\ tail = << >>
  /\ Len(wlog.frames) < MaxTornOps
  /\ wlog' = [frames |-> Append(wlog.frames, WalEncode(key, value, wlog.seq + 1)),
              seq |-> wlog.seq + 1]
  /\ replay' = NotReplayed
  /\ UNCHANGED tail
  /\ TornIdle

(* The process dies while write_record writes the next record: only its
   first cut bytes reach the file *)
CutWrite(key, value) ==
  /\ tail = << >>
  /\ \E cut \in 1..(Len(FrameBytes(WalEncode(key, value, wlog.seq + 1))) - 1) :
       tail' = SubSeq(FrameBytes(WalEncode(key, value, wlog.seq + 1)), 1, cut)
  /\ replay' = NotReplayed
  /\ UNCHANGED wlog
  /\ TornIdle

(* Fewer bytes than a record header are appended to the file *)
AppendGarbage ==
  /\ tail = << >>
  /\ \E n \in 1..(WalHeaderSize - 1), b \in {0, 255} : tail' = [i \in 1..n |-> b]
  /\ replay' = NotReplayed
  /\ UNCHANGED wlog
  /\ TornIdle

(* WAL::recover into MemTable::new(1024 * 1024) *)
TornReplay ==
  /\ ~replay.done
  /\ LET r == recover(WalFileBytes(wlog.frames, tail), MemTableNew, LargeMemTable)
     IN replay' = [done |-> TRUE, res |-> r.res, mt |-> r.mt]
  /\ UNCHANGED <<wlog, tail>>
  /\ TornIdle

TornValues == {None, Some(<< >>), Some(<<7>>)}

NextTorn ==
  \/ \E k \in Keys, v \in TornValues : TornAppend(k, v)
  \/ \E k \in Keys, v \in TornValues : CutWrite(k, v)
  \/ AppendGarbage
  \/ TornReplay

SpecTorn == InitWal /\ [][NextTorn]_vars

----------------------------------------------------------------------------
(* A MemTable on its own (src/src/memtable.rs tests): one thread calls put,
   delete and clear on a MemTable of a small capacity *)

MaxMemOps == 3
SmallMemTable == 40

MemKeys == {<<1>>, <<1, 0>>, <<2>>, EmptyKey}
MemValues == {<< >>, <<7>>, <<7, 7>>}

MemIdle ==
  UNCHANGED <<memSize, clock, walFiles, sstFiles, status, wal, memtable, sstables,
              engSeq, acked, runAck, closed, preClose, shutdown, opLimit,
              corrupted, runs, runLimit, wlog, replay, tail, sstVars, concVars>>

(* MemTable::put (value = Some(v)) and MemTable::delete (value = None) *)
MemWrite(op, key, value) ==
  /\ opCount < opLimit
  /\ opCount' = opCount + 1
  /\ LET w == MemTableWrite(direct, SmallMemTable, key, value)
     IN /\ direct' = w.mt
        /\ last' = Call(op, key, value, w.res, None)
  /\ MemIdle

MemPut == \E k \in MemKeys, v \in MemValues : MemWrite("put", k, Some(v))
MemDelete == \E k \in MemKeys : MemWrite("delete", k, None)

(* MemTable::clear *)
MemClear ==
  /\ direct # MemTableNew
  /\ direct' = MemTableNew
  /\ last' = Call("clear", << >>, None, "ok", None)
  /\ UNCHANGED opCount
  /\ MemIdle

NextMem ==
  \/ MemPut
  \/ MemDelete
  \/ MemClear

InitMem == InitWith(MaxMemOps, 0)

SpecMem == InitMem /\ [][NextMem]_vars

----------------------------------------------------------------------------
(* SSTable files on their own (src/src/sstable.rs tests, compaction.rs
   tests): MemTables are flushed with SSTable::from_memtable, files are
   opened with SSTable::open, keys are looked up with SSTable::get, and files
   are merged by the compaction engine *)

MaxEntries == 53
EdgeEntries == 2
OutPath == 0
AgainPath == -1

(* The entry counts tried: the smallest and the largest *)
EntryCounts == {n \in 1..MaxEntries : n <= EdgeEntries \/ n > MaxEntries - EdgeEntries - 1}

OrdinaryValue == <<7>>
OddValues == {None, Some(<< >>), Some(<<8>>)}

(* The MemTable after put(key_000, ..) .. put(key_<n-1>, ..) as in
   create_test_memtable_with_data, the j-th call being a put of another
   value or a delete *)
FilledMemTable(n, j, odd) ==
  LET data == [i \in 1..n |->
                 [key |-> NumberedKey(i - 1),
                  value |-> IF i = j THEN odd ELSE Some(OrdinaryValue),
                  seq |-> i]]
      sizes[i \in 0..n] == IF i = 0 THEN 0 ELSE sizes[i - 1] + EntrySize(data[i])
  IN [data |-> data, size |-> sizes[n], seq |-> n]

InitSst ==
  /\ EngineInitWith(0, 0)
  /\ WalIdle
  /\ ConcIdle
  /\ \E n \in EntryCounts : \E j \in {1, n}, odd \in OddValues :
       SstIdleWith({FilledMemTable(n, j, odd)})

(* SSTable::from_memtable on a new path *)
Build(mt, path) ==
  /\ ~looked.done
  /\ path \notin DOMAIN disk
  /\ path - 1 \in DOMAIN disk \cup {OutPath}
  /\ LET r == from_memtable(mt)
     IN /\ r.res = "ok"
        /\ disk' = (path :> r.file) @@ disk
        /\ mems' = (path :> mt) @@ mems
        /\ table' = [how |-> "built", path |-> path, sst |-> r.sst]
  /\ looked' = NotLooked
  /\ UNCHANGED <<engineVars, concVars, walVars, pool, compacted>>

(* SSTable::open on a file of the directory *)
Reopen(path) ==
  /\ ~looked.done
  /\ path \in DOMAIN disk
  /\ \/ table.how = "built" /\ table.path = path
     \/ path = OutPath /\ table.path # OutPath
  /\ LET o == sstable_open(disk[path])
     IN table' = [how |-> IF o.res = "ok" THEN "opened" ELSE "failed",
                  path |-> path, sst |-> o.sst]
  /\ looked' = NotLooked
  /\ UNCHANGED <<engineVars, concVars, walVars, pool, disk, mems, compacted>>

(* SSTable::get on the table in hand; a test looks a key up once the files
   are as it wants them *)
Lookup(key) ==
  /\ ~looked.done
  /\ table.how \in {"built", "opened"}
  /\ LET g == sstable_get(table.sst, disk[table.path], key)
     IN looked' = [done |-> TRUE, key |-> key, res |-> g.res, val |-> g.val]
  /\ UNCHANGED <<engineVars, concVars, walVars, pool, disk, mems, table, compacted>>

(* CompactionEngine::new(OutPath).compact_sstables(inputs) *)
Compact(inputs) ==
  /\ ~looked.done
  /\ ~compacted.done
  /\ LET c == compact_sstables([i \in 1..Len(inputs) |-> disk[inputs[i]]])
     IN /\ compacted' = [done |-> TRUE, res |-> c.res, inputs |-> inputs,
                          again |-> NotAgain]
        /\ disk' = IF c.written THEN (OutPath :> c.file) @@ disk ELSE disk
  /\ UNCHANGED <<engineVars, concVars, walVars, pool, mems, table, looked>>

(* CompactionEngine::new(AgainPath).compact_sstables(&[OutPath]) once the
   first compaction has succeeded *)
Recompact ==
  /\ ~looked.done
  /\ compacted.done
  /\ compacted.res = "ok"
  /\ ~compacted.again.done
  /\ LET c == compact_sstables(<<disk[OutPath]>>)
     IN /\ compacted' = [compacted EXCEPT !.again = [done |-> TRUE, res |-> c.res]]
        /\ disk' = IF c.written THEN (AgainPath :> c.file) @@ disk ELSE disk
  /\ UNCHANGED <<engineVars, concVars, walVars, pool, mems, table, looked>>

(* The keys a test looks up: the first and the last key of a MemTable and
   the next numbered key, which is in none of them *)
KeysOf(mt) == {mt.data[i].key : i \in {1, Len(mt.data)}}
LookupKeys == UNION {KeysOf(mt) \cup {NumberedKey(Len(mt.data))} : mt \in pool}

NextSst ==
  \/ \E mt \in pool : Build(mt, 1)
  \/ \E path \in DOMAIN disk : Reopen(path)
  \/ \E key \in LookupKeys : Lookup(key)
  \/ \E path \in DOMAIN disk : Compact(<<path>>)
  \/ Recompact

SpecSst == InitSst /\ [][NextSst]_vars

----------------------------------------------------------------------------
(* Compaction of two flushed MemTables (src/src/compaction.rs,
   test_compaction_keeps_most_recent_value): an older and a newer MemTable
   are flushed to two files in either order, the files are compacted in the
   order of their paths, and the output is opened and read *)

MaxOldOps == 1
MaxNewOps == 2
MaxInputs == 2

OtherKey == <<107>>               \* b"k", a key compact_sstables does not look for
CompactKeys == {Key1, Key2, OtherKey}
OldValue == <<7>>
NewValue == <<8>>

MemOps(value) ==
  {[op |-> "put", key |-> k, value |-> value] : k \in CompactKeys}
    \cup {[op |-> "delete", key |-> k, value |-> << >>] : k \in CompactKeys}

OpSeqs(ops, n) == UNION {[1..m -> ops] : m \in 1..n}

(* MemTable::put and MemTable::delete calls on a new MemTable *)
RECURSIVE ApplyOps(_, _)
ApplyOps(mt, ops) ==
  IF ops = << >> THEN mt
  ELSE LET o == Head(ops)
       IN ApplyOps(IF o.op = "put"
                   THEN MemTablePut(mt, LargeMemTable, o.key, o.value).mt
                   ELSE MemTableDelete(mt, LargeMemTable, o.key).mt,
                   Tail(ops))

InitCompact ==
  /\ EngineInitWith(0, 0)
  /\ WalIdle
  /\ ConcIdle
  /\ \E old \in OpSeqs(MemOps(OldValue), MaxOldOps), new \in OpSeqs(MemOps(NewValue), MaxNewOps) :
       SstIdleWith({ApplyOps(MemTableNew, old), ApplyOps(MemTableNew, new)})

(* The files flushed so far, in the order of their paths *)
RECURSIVE PathsUpTo(_)
PathsUpTo(n) == IF n = 0 THEN << >> ELSE Append(PathsUpTo(n - 1), n)
FlushedPaths == PathsUpTo(Cardinality(DOMAIN disk \ {OutPath, AgainPath}))

NextCompact ==
  \/ \E mt \in pool, path \in 1..MaxInputs :
       (\A p \in DOMAIN mems : mems[p] # mt) /\ Build(mt, path)
  \/ \E path \in DOMAIN disk : Reopen(path)
  \/ \E key \in CompactKeys : table.path = OutPath /\ Lookup(key)
  \/ FlushedPaths # << >> /\ Compact(FlushedPaths)
  \/ Recompact

SpecCompact == InitCompact /\ [][NextCompact]_vars

----------------------------------------------------------------------------
(* Several threads calling Engine::get on one engine (src/src/engine.rs
   146-168): the MemTable is read under its own lock, then the SSTables are
   probed newest first while the thread holds the write lock on
   Engine.sstables. Each SSTable has one file handle, whose position
   SSTable::get moves with a seek and six reads (src/src/sstable.rs 513-579) *)

MaxReaders == 2
MaxGets == 1

Readers == 1..MaxReaders

NotReading == [pc |-> "idle", key |-> << >>, i |-> 0, key_len |-> 0, value_len |-> 0,
               calls |-> 0, returned |-> FALSE, val |-> None]

(* The engine after two flushes, of put(key1), put(key2) and then of one
   more write, and possibly a put since: SSTables newest first *)
InitReaders ==
  /\ EngineInitWith(0, 0)
  /\ WalIdle
  /\ SstIdle
  /\ WriteIdle
  /\ \E new \in MemOps(NewValue),
        mem \in {MemTableNew, MemTablePut(MemTableNew, LargeMemTable, OtherKey, OrdinaryValue).mt} :
       LET newer == from_memtable(ApplyOps(MemTableNew, <<new>>))
           older == from_memtable(ApplyOps(MemTableNew,
                                           <<[op |-> "put", key |-> Key1, value |-> OldValue],
                                             [op |-> "put", key |-> Key2, value |-> OldValue]>>))
       IN /\ served = [mem |-> mem, tables |-> <<newer, older>>]
          /\ cursor = <<FileLen(newer.file), FileLen(older.file)>>
  /\ gets = [t \in Readers |-> NotReading]
  /\ sstLock = 0

LockFreeMut(holder) == TRUE

(* self.sstables.write(): granted when no thread holds the lock *)
LockFree(holder) == holder = 0

(* The call returns val; the guard on Engine.sstables, if held, is dropped *)
Return(t, val) ==
  /\ gets' = [gets EXCEPT ![t] = [@ EXCEPT !.pc = "idle", !.returned = TRUE, !.val = val]]
  /\ sstLock' = IF sstLock = t THEN 0 ELSE sstLock

(* Engine::get up to the lock: the key check and self.memtable.get(key) *)
StartGet(t, key) ==
  /\ gets[t].pc = "idle"
  /\ gets[t].calls < MaxGets
  /\ LET m == MemTableGet(served.mem, key)
     IN gets' = [gets EXCEPT ![t] =
                   [NotReading EXCEPT !.key = key, !.calls = gets[t].calls + 1,
                                      !.pc = IF m.some THEN "idle" ELSE "lock",
                                      !.returned = m.some, !.val = m]]
  /\ UNCHANGED <<engineVars, walVars, sstVars, writeVars, served, sstLock, cursor>>

(* let mut sstables = self.sstables.write().unwrap() *)
AcquireLock(t) ==
  /\ gets[t].pc = "lock"
  /\ LockFree(sstLock)
  /\ sstLock' = t
  /\ gets' = [gets EXCEPT ![t] = [@ EXCEPT !.pc = "table", !.i = 1]]
  /\ UNCHANGED <<engineVars, walVars, sstVars, writeVars, served, cursor>>

(* The next iteration of the loop over the SSTables, and SSTable::get up to
   the seek: the bloom filter and the index *)
NextTable(t) ==
  /\ gets[t].pc = "table"
  /\ LET i == gets[t].i
     IN IF i > Len(served.tables)
        THEN Return(t, None)
        ELSE LET sst == served.tables[i].sst
                 hit == /\ BloomMightContain(sst.bloom, gets[t].key) = "yes"
                        /\ find_key(sst.index, gets[t].key).some
             IN /\ gets' = [gets EXCEPT ![t] =
                              IF hit THEN [@ EXCEPT !.pc = "seek"]
                              ELSE [@ EXCEPT !.i = i + 1]]
                /\ sstLock' = sstLock
  /\ UNCHANGED <<engineVars, walVars, sstVars, writeVars, served, cursor>>

(* self.file.seek(SeekFrom::Start(index_entry.offset)) *)
Seek(t) ==
  /\ gets[t].pc = "seek"
  /\ LET i == gets[t].i
     IN cursor' = [cursor EXCEPT ![i] =
                     find_key(served.tables[i].sst.index, gets[t].key).v.offset]
  /\ gets' = [gets EXCEPT ![t] = [@ EXCEPT !.pc = "key_len"]]
  /\ UNCHANGED <<engineVars, walVars, sstVars, writeVars, served, sstLock>>

(* The reads of SSTable::get in order, and the number of bytes of each *)
ReadLen(g) ==
  CASE g.pc = "key_len" -> 4
    [] g.pc = "value_len" -> 4
    [] g.pc = "timestamp" -> 8
    [] g.pc = "sequence_number" -> 8
    [] g.pc = "stored_key" -> g.key_len
    [] g.pc = "value" -> g.value_len

AfterRead(pc) ==
  CASE pc = "key_len" -> "value_len"
    [] pc = "value_len" -> "timestamp"
    [] pc = "timestamp" -> "sequence_number"
    [] pc = "sequence_number" -> "stored_key"

FilePcs == {"key_len", "value_len", "timestamp", "sequence_number", "stored_key", "value"}

(* self.file.read_exact(..) at the position of the file handle, and what
   SSTable::get and the loop of Engine::get do with the bytes: an error or
   Ok(None) moves on to the next SSTable, Ok(Some(value)) returns *)
ReadStep(t) ==
  /\ gets[t].pc \in FilePcs
  /\ LET g == gets[t]
         i == g.i
         r == ReadExact(served.tables[i].file, cursor[i], ReadLen(g))
         skip == [g EXCEPT !.pc = "table", !.i = i + 1]
     IN /\ cursor' = IF r.ok THEN [cursor EXCEPT ![i] = @ + ReadLen(g)] ELSE cursor
        /\ IF ~r.ok THEN gets' = [gets EXCEPT ![t] = skip] /\ sstLock' = sstLock
           ELSE IF g.pc = "key_len"
                THEN /\ gets' = [gets EXCEPT ![t] =
                                   [g EXCEPT !.pc = "value_len", !.key_len = FromLe(r.bytes)]]
                     /\ sstLock' = sstLock
           ELSE IF g.pc = "value_len"
                THEN /\ gets' = [gets EXCEPT ![t] =
                                   [g EXCEPT !.pc = "timestamp", !.value_len = FromLe(r.bytes)]]
                     /\ sstLock' = sstLock
           ELSE IF g.pc \in {"timestamp", "sequence_number"}
                THEN /\ gets' = [gets EXCEPT ![t] = [g EXCEPT !.pc = AfterRead(g.pc)]]
                     /\ sstLock' = sstLock
           ELSE IF g.pc = "stored_key"
                THEN /\ gets' = [gets EXCEPT ![t] =
                                   IF r.bytes = g.key /\ g.value_len > 0
                                   THEN [g EXCEPT !.pc = "value"]
                                   ELSE skip]
                     /\ sstLock' = sstLock
           ELSE Return(t, Some(r.bytes))
  /\ UNCHANGED <<engineVars, walVars, sstVars, writeVars, served>>

NextReaders ==
  \/ \E t \in Readers, key \in CompactKeys : StartGet(t, key)
  \/ \E t \in Readers : AcquireLock(t)
  \/ \E t \in Readers : NextTable(t)
  \/ \E t \in Readers : Seek(t)
  \/ \E t \in Readers : ReadStep(t)

SpecReaders == InitReaders /\ [][NextReaders]_vars

----------------------------------------------------------------------------
(* Several threads calling MemTable::put on one MemTable with keys of their
   own (src/src/memtable.rs 75-129, test_memtable_thread_safety): the
   sequence number, the size and the data are behind three locks; the lock on
   the data is held from insert_or_update to the end of the call *)

MaxWriters == 2
MaxPuts == 2

Writers == 1..MaxWriters

(* format!("key_{}_{}", i, j) and format!("value_{}_{}", i, j), shortened *)
WriterKey(t, j) == <<107, 48 + t, 48 + j>>
WriterValue(t, j) == <<118, 48 + t, 48 + j>>

NotWriting == [pc |-> "idle", j |-> 0, seq |-> 0, index |-> 0, found |-> FALSE,
               old_size |-> 0, failed |-> FALSE]

InitWriters ==
  /\ EngineInitWith(0, 0)
  /\ WalIdle
  /\ SstIdle
  /\ ReadIdle
  /\ shared = MemTableNew
  /\ puts = [t \in Writers |-> NotWriting]
  /\ dataLock = 0
  /\ calls = NoThreads
  /\ locks = NoLocks

(* The entry of the put thread t is making *)
WriterEntry(t) ==
  [key |-> WriterKey(t, puts[t].j), value |-> Some(WriterValue(t, puts[t].j)),
   seq |-> puts[t].seq]

(* slice::binary_search_by on the keys: Ok(index) or Err(index), from 0 *)
RECURSIVE BinarySearch(_, _, _, _)
BinarySearch(data, key, lo, hi) ==
  IF lo >= hi THEN [found |-> FALSE, index |-> lo]
  ELSE LET mid == lo + (hi - lo) \div 2
       IN IF data[mid + 1].key = key THEN [found |-> TRUE, index |-> mid]
          ELSE IF KeyLess(data[mid + 1].key, key) THEN BinarySearch(data, key, mid + 1, hi)
          ELSE BinarySearch(data, key, lo, mid)

(* MemTable::get: find_entry under the read lock on the data *)
SharedGet(key) ==
  LET r == BinarySearch(shared.data, key, 0, Len(shared.data))
  IN IF r.found THEN shared.data[r.index + 1].value ELSE None

DataLockFreeMut(holder) == TRUE

(* self.data.write(): granted when no thread holds the lock *)
DataLockFree(holder) == holder = 0

(* The start of MemTable::put: the next sequence number, under its lock *)
BeginPut(t) ==
  /\ puts[t].pc = "idle"
  /\ puts[t].j < MaxPuts
  /\ shared' = [shared EXCEPT !.seq = @ + 1]
  /\ puts' = [puts EXCEPT ![t] = [NotWriting EXCEPT !.pc = "size", !.j = puts[t].j + 1,
                                                    !.seq = shared.seq + 1,
                                                    !.failed = puts[t].failed]]
  /\ UNCHANGED <<engineVars, walVars, sstVars, readVars, dataLock, calls, locks>>

(* The capacity test on the size read under the read lock *)
CheckSize(t) ==
  /\ puts[t].pc = "size"
  /\ puts' = [puts EXCEPT ![t] =
                IF WouldOverflow(shared.size, EntrySize(WriterEntry(t)), LargeMemTable)
                THEN [@ EXCEPT !.pc = "idle", !.failed = TRUE]
                ELSE [@ EXCEPT !.pc = "lock"]]
  /\ UNCHANGED <<engineVars, walVars, sstVars, readVars, shared, dataLock, calls, locks>>

(* let mut data = self.data.write().unwrap() *)
LockData(t) ==
  /\ puts[t].pc = "lock"
  /\ DataLockFree(dataLock)
  /\ dataLock' = t
  /\ puts' = [puts EXCEPT ![t] = [@ EXCEPT !.pc = "search"]]
  /\ UNCHANGED <<engineVars, walVars, sstVars, readVars, shared, calls, locks>>

(* insert_or_update: the binary search *)
Search(t) ==
  /\ puts[t].pc = "search"
  /\ LET r == BinarySearch(shared.data, WriterKey(t, puts[t].j), 0, Len(shared.data))
     IN puts' = [puts EXCEPT ![t] = [@ EXCEPT !.pc = "insert", !.index = r.index,
                                                !.found = r.found]]
  /\ UNCHANGED <<engineVars, walVars, sstVars, readVars, shared, dataLock, calls, locks>>

(* insert_or_update: mem::replace at Ok(index), Vec::insert at Err(index) *)
Insert(t) ==
  /\ puts[t].pc = "insert"
  /\ LET i == puts[t].index
         data == shared.data
     IN IF puts[t].found
        THEN /\ shared' = [shared EXCEPT !.data[i + 1] = WriterEntry(t)]
             /\ puts' = [puts EXCEPT ![t] = [@ EXCEPT !.pc = "add",
                                                       !.old_size = EntrySize(data[i + 1])]]
        ELSE /\ shared' = [shared EXCEPT !.data = SubSeq(data, 1, i) \o <<WriterEntry(t)>>
                                                    \o SubSeq(data, i + 1, Len(data))]
             /\ puts' = [puts EXCEPT ![t] = [@ EXCEPT !.pc = "add"]]
  /\ UNCHANGED <<engineVars, walVars, sstVars, readVars, dataLock, calls, locks>>

(* The update of size_bytes under its write lock, and the end of the call,
   where the guard on the data is dropped *)
AddSize(t) ==
  /\ puts[t].pc = "add"
  /\ LET entry_size == EntrySize(WriterEntry(t))
     IN shared' = [shared EXCEPT !.size =
                     @ + IF puts[t].found THEN SaturatingSub(entry_size, puts[t].old_size)
                         ELSE entry_size]
  /\ puts' = [puts EXCEPT ![t] = [@ EXCEPT !.pc = "idle"]]
  /\ dataLock' = IF dataLock = t THEN 0 ELSE dataLock
  /\ UNCHANGED <<engineVars, walVars, sstVars, readVars, calls, locks>>

NextWriters ==
  \/ \E t \in Writers : BeginPut(t)
  \/ \E t \in Writers : CheckSize(t)
  \/ \E t \in Writers : LockData(t)
  \/ \E t \in Writers : Search(t)
  \/ \E t \in Writers : Insert(t)
  \/ \E t \in Writers : AddSize(t)

SpecWriters == InitWriters /\ [][NextWriters]_vars

----------------------------------------------------------------------------
(* Several threads calling put, delete, get, entries, size_bytes, is_full and
   clear on one small MemTable (src/src/memtable.rs 75-239), with the three
   RwLocks of the MemTable: every thread makes one call, and a call is the
   list of its lock acquisitions and releases in program order, each with
   what the call does under the lock *)

MaxCallers == 2
TightMemTable == 20

Callers == 1..MaxCallers
LockKeys == {<<1>>, <<2>>}
LockValue == <<7>>

Acq(lock, mode, act) == [kind |-> "acq", lock |-> lock, mode |-> mode, act |-> act]
Rel(lock, act) == [kind |-> "rel", lock |-> lock, mode |-> "", act |-> act]

(* MemTable::clear taking the lock on size_bytes before the lock on the data *)
ClearStepsMut ==
  <<Acq("size", "w", "zero_size"),
    Acq("data", "w", "clear_data"),
    Rel("size", "none"),
    Acq("seq", "w", "zero_seq"),
    Rel("seq", "none"),
    Rel("data", "return")>>

(* MemTable::clear: the guard on the data lives to the end of the call, the
   guards on size_bytes and sequence_number to the end of their statement *)
ClearSteps ==
  <<Acq("data", "w", "clear_data"),
    Acq("size", "w", "zero_size"),
    Rel("size", "none"),
    Acq("seq", "w", "zero_seq"),
    Rel("seq", "none"),
    Rel("data", "return")>>

(* MemTable::put and MemTable::delete after the test of the key: the sequence
   number in its own block, the size read by a temporary guard, then the
   guard on the data held to the end, with the size updated and read for
   debug! under it *)
WriteSteps ==
  <<Acq("seq", "w", "next_seq"),
    Rel("seq", "none"),
    Acq("size", "r", "read_size"),
    Rel("size", "check"),
    Acq("data", "w", "insert"),
    Acq("size", "w", "add_size"),
    Rel("size", "none"),
    Acq("size", "r", "none"),
    Rel("size", "none"),
    Rel("data", "return")>>

(* MemTable::get and MemTable::entries *)
DataReadSteps == <<Acq("data", "r", "none"), Rel("data", "return")>>

(* MemTable::size_bytes, also when MemTable::is_full calls it *)
SizeReadSteps == <<Acq("size", "r", "none"), Rel("size", "return")>>

StepsOf(op) ==
  CASE op \in {"put", "delete"} -> WriteSteps
    [] op \in {"get", "entries"} -> DataReadSteps
    [] op = "size_bytes" -> SizeReadSteps
    [] op = "clear" -> ClearSteps

(* The calls a thread may make *)
LockCalls ==
  {[op |-> "put", key |-> k, value |-> Some(LockValue)] : k \in LockKeys}
    \cup {[op |-> "delete", key |-> k, value |-> None] : k \in LockKeys}
    \cup {[op |-> "get", key |-> k, value |-> None] : k \in LockKeys}
    \cup {[op |-> o, key |-> << >>, value |-> None] :
            o \in {"entries", "size_bytes", "clear"}}

NotCalling == [pc |-> 0, op |-> "none", key |-> << >>, value |-> None, seq |-> 0,
               current_size |-> 0, found |-> FALSE, old_size |-> 0, returned |-> FALSE]

InitLocks ==
  /\ EngineInitWith(0, 0)
  /\ WalIdle
  /\ SstIdle
  /\ ReadIdle
  /\ shared = MemTableNew
  /\ puts = NoThreads
  /\ dataLock = 0
  /\ calls = [t \in Callers |-> NotCalling]
  /\ locks = NoLocks

LocksIdle == UNCHANGED <<engineVars, walVars, sstVars, readVars, puts, dataLock>>

(* The step thread t is at *)
StepAt(t) == StepsOf(calls[t].op)[calls[t].pc]

(* The entry of the put or delete thread t is making *)
CallerEntry(t) == [key |-> calls[t].key, value |-> calls[t].value, seq |-> calls[t].seq]

(* RwLock::read is granted when no thread holds the lock for writing,
   RwLock::write when no thread holds it at all *)
Granted(lock, mode) ==
  IF mode = "r" THEN lock.writer = 0 ELSE lock.writer = 0 /\ lock.readers = {}

Lock(lock, mode, t) ==
  IF mode = "r" THEN [lock EXCEPT !.readers = @ \cup {t}] ELSE [lock EXCEPT !.writer = t]

(* The drop of the guard thread t has on the lock *)
Unlock(lock, t) ==
  [writer |-> IF lock.writer = t THEN 0 ELSE lock.writer, readers |-> lock.readers \ {t}]

(* What a call does to the MemTable right after it was granted a lock *)
Under(act, t) ==
  CASE act = "next_seq" -> [shared EXCEPT !.seq = @ + 1]
    [] act = "insert" -> [shared EXCEPT !.data = insert_or_update(@, CallerEntry(t))]
    [] act = "add_size" ->
         [shared EXCEPT !.size =
            @ + IF calls[t].found
                THEN SaturatingSub(EntrySize(CallerEntry(t)), calls[t].old_size)
                ELSE EntrySize(CallerEntry(t))]
    [] act = "clear_data" -> [shared EXCEPT !.data = << >>]
    [] act = "zero_size" -> [shared EXCEPT !.size = 0]
    [] act = "zero_seq" -> [shared EXCEPT !.seq = 0]
    [] OTHER -> shared

(* What the call keeps in its locals of what it saw under the lock *)
Noted(act, t) ==
  CASE act = "next_seq" -> [calls[t] EXCEPT !.seq = shared.seq + 1]
    [] act = "read_size" -> [calls[t] EXCEPT !.current_size = shared.size]
    [] act = "insert" ->
         LET old == find_entry(shared.data, calls[t].key)
         IN [calls[t] EXCEPT !.found = old.some,
                             !.old_size = IF old.some THEN EntrySize(old.v) ELSE 0]
    [] OTHER -> calls[t]

Returned(c) == [NotCalling EXCEPT !.returned = TRUE]

(* A thread calls one of the functions *)
StartCall(t) ==
  /\ calls[t].pc = 0
  /\ ~calls[t].returned
  /\ \E c \in LockCalls :
       calls' = [calls EXCEPT ![t] = [@ EXCEPT !.pc = 1, !.op = c.op, !.key = c.key,
                                                !.value = c.value]]
  /\ UNCHANGED <<shared, locks>>
  /\ LocksIdle

(* lock.read().unwrap() or lock.write().unwrap() returns *)
Acquire(t) ==
  /\ calls[t].pc > 0
  /\ StepAt(t).kind = "acq"
  /\ LET st == StepAt(t)
     IN /\ Granted(locks[st.lock], st.mode)
        /\ locks' = [locks EXCEPT ![st.lock] = Lock(@, st.mode, t)]
        /\ shared' = Under(st.act, t)
        /\ calls' = [calls EXCEPT ![t] = [Noted(st.act, t) EXCEPT !.pc = @ + 1]]
  /\ LocksIdle

(* A guard is dropped; after the guard on the size the capacity is tested on
   the size that was read, and the call returns TableFull or goes on *)
Release(t) ==
  /\ calls[t].pc > 0
  /\ StepAt(t).kind = "rel"
  /\ LET st == StepAt(t)
         over == WouldOverflow(calls[t].current_size, EntrySize(CallerEntry(t)),
                               TightMemTable)
     IN /\ locks' = [locks EXCEPT ![st.lock] = Unlock(@, t)]
        /\ calls' = [calls EXCEPT ![t] =
                       IF st.act = "return" \/ (st.act = "check" /\ over)
                       THEN Returned(@)
                       ELSE [@ EXCEPT !.pc = @ + 1]]
  /\ UNCHANGED shared
  /\ LocksIdle

CallerStep(t) == StartCall(t) \/ Acquire(t) \/ Release(t)

NextLocks ==
  \/ \E t \in Callers : StartCall(t)
  \/ \E t \in Callers : Acquire(t)
  \/ \E t \in Callers : Release(t)

SpecLocks == InitLocks /\ [][NextLocks]_vars

(* The scheduler runs every thread that can take a step *)
SpecLocksFair == SpecLocks /\ \A t \in Callers : WF_vars(CallerStep(t))

----------------------------------------------------------------------------
(* Properties *)

(* What Engine::get answers for key in the current state *)
GetNow(key) == EngineGet(EngineState, key)

(* What the last acknowledged mutation of a key says get should answer *)
Expected(ack) == IF ack.kind = "put" THEN Some(ack.v) ELSE None

(* C1: read-your-writes: when put(k, v) has just returned success, get(k)
   returns v. *)
C1_ReadYourWrites ==
  (last.op = "put" /\ last.res = "ok")
    => GetNow(last.key) = [res |-> "ok", val |-> last.val]

(* C2: after delete(k) has returned success and until the next put(k), get(k)
   on this instance returns not-present. *)
C2_DeleteHides ==
  \A k \in Keys :
    (status = "open" /\ runAck[k].kind = "del") => GetNow(k).val = None

(* C3: reopening after the engine was dropped without close succeeds, and
   get(k) then returns, for every key, the result of the last acknowledged
   mutation of k. *)
C3_CrashRecovery ==
  (last.op = "open" /\ shutdown = "crash")
    => /\ last.res = "ok"
       /\ \A k \in Keys : GetNow(k).val = Expected(acked[k])

(* C4: reopening after close() succeeds, and get(k) then returns for every
   key what it returned immediately before close(). *)
C4_GracefulRestart ==
  (last.op = "open" /\ shutdown = "close")
    => /\ last.res = "ok"
       /\ \A k \in Keys : GetNow(k).val = preClose[k]

(* C5: newest wins across layers: on one instance, get(k) returns the value
   of the most recent put to k, whether that value is still in the MemTable
   or was flushed, and however many flushes separate the writes. *)
C5_NewestWins ==
  \A k \in Keys :
    (status = "open" /\ runAck[k].kind = "put") => GetNow(k).val = Some(runAck[k].v)

(* C6: an empty value is a value: after an acknowledged put(k, empty), get(k)
   returns present-with-empty-value, also after a flush and after a reopen. *)
C6_EmptyValueIsValue ==
  \A k \in Keys :
    (status = "open" /\ acked[k] = PutAck(<< >>)) => GetNow(k).val = Some(<< >>)

(* C7: a put or delete with a non-empty key whose entry alone fits in
   memtable_size never returns the MemTable's TableFull error. *)
C7_TableFullNeverEscapes ==
  (/\ last.op \in {"put", "delete"}
   /\ last.key # << >>
   /\ Len(last.key) + Len(last.val.v) + EntryOverhead <= memSize)
    => last.res # "TableFull"

(* C8: a put or delete that returns an error has recorded nothing in any WAL
   file and changed nothing a get can see. *)
C8_FailedWriteLeavesNoTrace ==
  [][(opCount' # opCount /\ last'.res # "ok")
       => (walFiles' = walFiles /\ memtable'.data = memtable.data
           /\ sstables' = sstables)]_vars

(* C9: opening the engine succeeds whatever the WAL files and the SSTable
   files of the data directory contain. *)
C9_OpenAlwaysSucceeds == last.op = "open" => last.res = "ok"

(* C10: put, get and delete with an empty key return InvalidConfig and leave
   the WAL files, the WAL sequence number, the MemTable and the SSTable list
   as they were. *)
C10_EmptyKeyRejected ==
  [][(PutEmptyKey \/ DeleteEmptyKey \/ GetEmptyKey)
       => /\ last'.res = "InvalidConfig"
          /\ last'.key = EmptyKey
          /\ UNCHANGED <<walFiles, sstFiles, wal, memtable, sstables, engSeq>>]_vars

C10_Witness ==
  /\ last.op = "put"
  /\ last.key = EmptyKey
  /\ last.res = "InvalidConfig"
  /\ sstables # << >>
  /\ wal.path # WalLog

(* What a MemTable holds for a key: a live value, a tombstone or nothing *)
Logical(mt, key) ==
  LET e == find_entry(mt.data, key)
  IN IF ~e.some THEN [kind |-> "absent", v |-> << >>]
     ELSE IF e.v.value.some THEN [kind |-> "live", v |-> e.v.value.v]
     ELSE [kind |-> "tombstone", v |-> << >>]

(* C11: WAL round trip: replaying a WAL into a fresh, sufficiently large
   MemTable succeeds and yields the same live keys with the same values and
   the same tombstoned keys as the MemTable the operations were applied to
   directly. *)
C11_WalRoundTrip ==
  replay.done =>
    /\ replay.res = "ok"
    /\ \A k \in Keys : Logical(replay.mt, k) = Logical(direct, k)

(* The MemTable the table in hand was written from *)
SourceOf(path) == mems[path]

(* C12: SSTable build/lookup round trip: the SSTable from_memtable returns
   for a non-empty MemTable M, and the one open() makes of the written file,
   answer get(k) without error, with M's value for a key live in M and with
   not-present for a tombstoned or absent key; open() of the file succeeds. *)
C12_SSTableRoundTrip ==
  (table.path \in DOMAIN mems) =>
    /\ table.how # "failed"
    /\ looked.done =>
         /\ looked.res = "ok"
         /\ looked.val = MemTableGet(SourceOf(table.path), looked.key)

(* C13: the bloom filter has no false negatives: for the SSTable in hand,
   written by from_memtable or by the compaction engine, as returned by the
   builder or read back by open(), might_contain is true for every key of
   the table. *)
C13_BloomNoFalseNegatives ==
  table.how \in {"built", "opened"} =>
    \A i \in 1..Len(table.sst.index) :
      BloomMightContain(table.sst.bloom, table.sst.index[i].key) = "yes"

(* A table read back from the output of a compaction whose input has bloom
   filter bits longer than the placeholder *)
C13_Witness ==
  /\ table.how = "opened"
  /\ table.path = OutPath
  /\ Len(table.sst.index) > 1
  /\ \E path \in DOMAIN mems :
       DivCeil(Len(mems[path].data) * BitsPerEntry, 8) > BloomPlaceholderSize

(* C14: in every SSTable produced by a flush or by compaction, the index
   entries are in strictly ascending key order, each key once, and the data
   entries of the file carry the same keys in the same order *)
C14_SSTableKeyOrdering ==
  table.how \in {"built", "opened"} =>
    LET index == table.sst.index
    IN /\ \A i \in 1..(Len(index) - 1) : KeyLess(index[i].key, index[i + 1].key)
       /\ \A i \in 1..Len(index) :
            StoredKeyAt(disk[table.path], index[i].offset) = Some(index[i].key)

(* What a reader finds in an SSTable file: SSTable::open, then SSTable::get
   for every key of the index *)
TableContents(file) ==
  LET o == sstable_open(file)
      got == [i \in 1..Len(o.sst.index) |->
                sstable_get(o.sst, file, o.sst.index[i].key)]
      at == 1..Len(o.sst.index)
  IN [ok |-> o.res = "ok" /\ \A i \in at : got[i].res = "ok",
      live |-> {[key |-> o.sst.index[i].key, value |-> got[i].val.v] :
                  i \in {j \in at : got[j].val.some}},
      tombstones |-> {o.sst.index[i].key : i \in {j \in at : ~got[j].val.some}}]

(* C18: compacting the single SSTable a compaction has written succeeds, and
   its output has the same live keys with the same values and holds no
   tombstone *)
C18_CompactionIdempotence ==
  compacted.again.done =>
    /\ compacted.again.res = "ok"
    /\ LET first == TableContents(disk[OutPath])
           second == TableContents(disk[AgainPath])
       IN /\ first.ok
          /\ second.ok
          /\ second.live = first.live
          /\ second.tombstones = {}

(* The output of a compaction of a flush whose bloom filter bits are longer
   than the placeholder was compacted again *)
C18_Witness ==
  /\ compacted.again.done
  /\ Len(mems[compacted.inputs[1]].data) > 1
  /\ DivCeil(Len(mems[compacted.inputs[1]].data) * BitsPerEntry, 8) > BloomPlaceholderSize
  /\ Cardinality(TableContents(disk[OutPath]).live) > 1

(* The entries the input files of the last compaction store for key: the
   sequence number and the value from the MemTable each file was flushed from *)
StoredEntries(key) ==
  {[seq |-> mems[compacted.inputs[i]].data[j].seq,
    value |-> mems[compacted.inputs[i]].data[j].value,
    pos |-> i] :
     <<i, j>> \in {<<i, j>> \in (1..Len(compacted.inputs)) \X (1..MaxNewOps) :
                     /\ j <= Len(mems[compacted.inputs[i]].data)
                     /\ mems[compacted.inputs[i]].data[j].key = key}}

(* The values of the stored entries of key with the highest sequence number *)
FreshestValues(key) ==
  {o.value : o \in {o \in StoredEntries(key) :
                      \A p \in StoredEntries(key) : p.seq <= o.seq}}

(* SSTable::open on the output of the compaction, then SSTable::get *)
OutputGet(key) ==
  LET o == sstable_open(disk[OutPath])
  IN IF o.res # "ok" THEN [res |-> o.res, val |-> None]
     ELSE sstable_get(o.sst, disk[OutPath], key)

(* The keys of the index of the output of the compaction *)
OutputKeys ==
  LET o == sstable_open(disk[OutPath])
  IN {o.sst.index[i].key : i \in 1..Len(o.sst.index)}

(* C15: compaction loses no live key: the output holds exactly the keys
   whose freshest entry across the inputs is a live value, each with that
   value, whatever the keys are *)
C15_CompactionKeepsLiveKeys ==
  compacted.done =>
    \A key \in CompactKeys :
      LET fresh == FreshestValues(key)
      IN /\ \A v \in {OldValue, NewValue} :
              fresh = {Some(v)} =>
                /\ compacted.res = "ok"
                /\ OutputGet(key) = [res |-> "ok", val |-> Some(v)]
         /\ (fresh \subseteq {None} /\ compacted.res = "ok") => key \notin OutputKeys

(* C16: when a key occurs in several inputs, the output holds the value of
   the occurrence with the highest stored sequence number, wherever its
   table stands in the input list *)
C16_CompactionKeepsNewest ==
  (compacted.done /\ compacted.res = "ok") =>
    \A key \in CompactKeys, v \in {OldValue, NewValue} :
      (/\ Cardinality({o.pos : o \in StoredEntries(key)}) > 1
       /\ FreshestValues(key) = {Some(v)})
        => OutputGet(key) = [res |-> "ok", val |-> Some(v)]

(* C17: a key whose freshest entry across the inputs is a tombstone has no
   entry in the output, and the output holds no tombstone *)
C17_CompactionDropsTombstones ==
  (compacted.done /\ compacted.res = "ok") =>
    /\ \A key \in CompactKeys :
         FreshestValues(key) = {None} => key \notin OutputKeys
    /\ TableContents(disk[OutPath]).tombstones = {}

(* What Engine::get returns for key when no other call runs: the MemTable,
   then the first SSTable from position i on whose get is Ok(Some(value)) *)
RECURSIVE ProbeServed(_, _)
ProbeServed(i, key) ==
  IF i > Len(served.tables) THEN None
  ELSE LET g == sstable_get(served.tables[i].sst, served.tables[i].file, key)
       IN IF g.res = "ok" /\ g.val.some THEN g.val ELSE ProbeServed(i + 1, key)

GetAlone(key) ==
  LET m == MemTableGet(served.mem, key)
  IN IF m.some THEN m ELSE ProbeServed(1, key)

(* C19: concurrent Engine::get calls do not interfere: each returns what it
   would return if it ran alone, and no two calls are between the seek and
   the last read of a lookup on the same SSTable at the same time *)
C19_ConcurrentReads ==
  /\ \A t \in DOMAIN gets : gets[t].returned => gets[t].val = GetAlone(gets[t].key)
  /\ \A t, u \in DOMAIN gets :
       (t # u /\ gets[t].pc \in FilePcs /\ gets[u].pc \in FilePcs) => gets[t].i # gets[u].i

(* A call is about to read its value from an SSTable while another call, for
   another key of the same SSTable, waits for the lock *)
C19_Witness ==
  \E t, u \in DOMAIN gets :
    /\ t # u
    /\ gets[t].pc = "value"
    /\ gets[u].pc = "lock"
    /\ gets[t].key # gets[u].key
    /\ find_key(served.tables[gets[t].i].sst.index, gets[u].key).some

(* The number of puts the threads of T have started *)
RECURSIVE PutsMade(_)
PutsMade(T) ==
  IF T = {} THEN 0
  ELSE LET t == CHOOSE x \in T : TRUE
       IN puts[t].j + PutsMade(T \ {t})

(* C20: concurrent writers of distinct keys into a MemTable with room for
   all of them lose no write: no put fails, and whenever no put is running,
   len() is the number of puts made and get returns the value of each *)
C20_ConcurrentWriters ==
  /\ \A t \in DOMAIN puts : ~puts[t].failed
  /\ (\A t \in DOMAIN puts : puts[t].pc = "idle") =>
       /\ Len(shared.data) = PutsMade(DOMAIN puts)
       /\ \A t \in DOMAIN puts : \A j \in 1..puts[t].j :
            SharedGet(WriterKey(t, j)) = Some(WriterValue(t, j))

(* All the threads have made all their puts, and the thread with the larger
   keys took its sequence number first *)
C20_Witness ==
  /\ puts # NoThreads
  /\ \A t \in DOMAIN puts : puts[t].pc = "idle" /\ puts[t].j = MaxPuts
  /\ \E i \in 1..(Len(shared.data) - 1) : shared.data[i].seq > shared.data[i + 1].seq

(* The frame Engine::put / Engine::delete appends for the call in last *)
FrameOf(call, seq) == WalEncode(call.key, call.val, seq)

(* C21: write-ahead ordering: a put or delete changes the MemTable (or starts
   a flush) only when its record has been appended to the WAL file that was
   current at the call; when the WAL append fails the MemTable, the SSTable
   list, the SSTable files and the current WAL are left as they were. *)
C21_WriteAheadOrdering ==
  [][(opCount' # opCount)
       => /\ (memtable' # memtable \/ sstables' # sstables)
               => /\ last'.res # "Io"
                  /\ walFiles'[wal.path]
                       = Append(walFiles[wal.path], FrameOf(last', wal.seq + 1))
          /\ last'.res = "Io"
               => UNCHANGED <<memtable, sstables, sstFiles, wal>>]_vars

C21_Witness ==
  /\ last.op = "put"
  /\ last.res = "Io"
  /\ memtable.data # << >>
  /\ ~HasKey(memtable.data, last.key)
  /\ Len(walFiles[wal.path]) = 2

(* The data entry the file of the i-th SSTable of the list holds for a key *)
HeldBy(i, key) ==
  LET es == sstFiles[sstables[i].path].entries
  IN IF \E n \in 1..Len(es) : es[n].key = key
     THEN Some(es[CHOOSE n \in 1..Len(es) : es[n].key = key])
     ELSE None

HoldsTombstone(i, key) == HeldBy(i, key).some /\ Len(HeldBy(i, key).v.val) = 0
HoldsLive(i, key) == HeldBy(i, key).some /\ Len(HeldBy(i, key).v.val) > 0

(* C22: a tombstone in a newer SSTable halts the read search: when the
   MemTable has no entry for k, the newest SSTable with an entry for k holds a
   tombstone (here one that a delete of this run wrote) and an older SSTable
   holds a live value for k, get(k) returns not-present. *)
C22_TombstoneHaltsSearch ==
  \A k \in Keys :
    (/\ status = "open"
     /\ runAck[k].kind = "del"
     /\ ~HasKey(memtable.data, k)
     /\ \E i \in 1..Len(sstables) :
          /\ HoldsTombstone(i, k)
          /\ \A h \in 1..(i - 1) : ~HeldBy(h, k).some
          /\ \E j \in (i + 1)..Len(sstables) : HoldsLive(j, k))
      => GetNow(k) = [res |-> "ok", val |-> None]

(* What the i-th SSTable of the list answers to SSTable::get(key) *)
TableAnswer(i, key) == SSTableGet(sstables[i], sstFiles[sstables[i].path], key)

(* Engine::get(key) gets as far as the i-th SSTable: the MemTable and the
   newer tables gave it no value *)
GetReaches(i, key) ==
  /\ ~MemTableGet(memtable, key).some
  /\ \A h \in 1..(i - 1) : ~(TableAnswer(h, key).res = "ok" /\ TableAnswer(h, key).val.some)

(* C23: read errors are surfaced: when the probe of an SSTable during
   Engine::get(k) fails, get(k) returns that error instead of a value of an
   older SSTable or not-present. *)
C23_ReadErrorsSurfaced ==
  \A k \in Keys :
    \A i \in 1..Len(sstables) :
      (status = "open" /\ GetReaches(i, k) /\ TableAnswer(i, k).res # "ok")
        => GetNow(k).res = TableAnswer(i, k).res

(* A step of a running engine in which flush_memtable ran *)
Flushed == status = "open" /\ status' = "open" /\ Len(sstables') > Len(sstables)

(* C24: flush effect: a flush of a non-empty MemTable (force_flush, close or
   automatic) puts exactly one new SSTable at the head of the list, leaves an
   empty MemTable of size 0 and switches the engine to a new WAL file;
   force_flush and close on an empty MemTable change nothing. *)
C24_FlushEffect ==
  [][/\ (ForceFlush \/ Close)
          => IF MemTableIsEmpty(memtable)
             THEN UNCHANGED <<walFiles, sstFiles, wal, memtable, sstables>>
             ELSE Flushed
     /\ Flushed
          => /\ Len(sstables') = Len(sstables) + 1
             /\ Tail(sstables') = sstables
             /\ memtable'.data = << >>
             /\ memtable'.size = 0
             /\ wal'.path # wal.path
             /\ wal'.path \notin DOMAIN walFiles
             /\ walFiles'[wal'.path] = << >>]_vars

(* C25: flush is transparent to readers: for every key, Engine::get returns
   the same result immediately after a flush (force_flush or close) as
   immediately before it. *)
C25_FlushTransparent ==
  [][(ForceFlush \/ Close)
       => \A k \in Keys : EngineGet(EngineState', k) = GetNow(k)]_vars

(* The file names of the SSTables of a list, in list order *)
PathsOf(list) == [i \in 1..Len(list) |-> list[i].path]

(* No two flushes were given the same timestamp: the SSTables of the list
   have different file names, and beside wal.log there is one WAL file for
   each of them *)
UniquePaths(list) ==
  /\ \A i, j \in 1..Len(list) : list[i].path = list[j].path => i = j
  /\ Cardinality(DOMAIN walFiles) = Len(list) + 1

(* C26: independence from clock monotonicity: provided the timestamps in the
   file names are unique, a reopen yields the SSTable list in the order of
   creation, newest first, that the list had before, also when the wall clock
   moved backwards between the flushes. *)
C26_ClockIndependence ==
  [][(Restart /\ last'.res = "ok" /\ UniquePaths(sstables))
       => PathsOf(sstables') = PathsOf(sstables)]_vars

(* C27: SSTables are immutable: no step of the engine (put, delete, get,
   flush, close, reopen) changes or removes an SSTable file that exists, also
   when two flushes happen within the same clock millisecond. *)
C27_SSTablesImmutable ==
  [][\A t \in DOMAIN sstFiles :
       t \in DOMAIN sstFiles' /\ sstFiles'[t] = sstFiles[t]]_vars

(* C28: recovery copes with retained WAL generations: after any sequence of
   successful puts, deletes and flushes, with every superseded WAL file still
   on disk, opening the engine with the same configuration succeeds. *)
C28_RetainedWalsReplay ==
  (runs > 0 /\ last.op = "open") => (last.res = "ok" /\ status = "open")

(* What the MemTable holds for a key when the mutation in ack was the last
   one applied to it; an acknowledged empty value is left aside, the WAL
   stores it as a tombstone *)
HoldsAck(mt, key, ack) ==
  CASE ack.kind = "del" -> Logical(mt, key).kind = "tombstone"
    [] ack.kind = "put" /\ ack.v # << >> ->
         Logical(mt, key) = [kind |-> "live", v |-> ack.v]
    [] OTHER -> TRUE

(* C29: recovery replays mutations in the order they were acknowledged: the
   WAL file written by a run is replayed after the WAL files of earlier runs,
   so after a recovery the MemTable holds, for each key, the most recently
   acknowledged mutation. *)
C29_ReplayInAckOrder ==
  (last.op = "open" /\ last.res = "ok")
    => \A k \in Keys : HoldsAck(memtable, k, acked[k])

(* The records of the file carry the numbers 1, 2, 3, ... in file order *)
GapFree(frames) == \A i \in 1..Len(frames) : frames[i].seq = i

(* C30: WAL sequence numbers are gap-free: the records of the file are
   numbered 1, 2, 3, ... in file order, also after the file was reopened and
   appended to; a refused write_record leaves the file and the sequence
   number as they were, and a successful append adds one record and
   increases the sequence number by exactly 1. *)
C30_WalSequenceGapFree ==
  [][/\ GapFree(wlog'.frames)
     /\ (last'.op \in {"write_record", "append"} /\ last'.res # "ok")
          => wlog' = wlog
     /\ (last'.op \in {"write_record", "append"} /\ last'.res = "ok")
          => /\ wlog'.seq = wlog.seq + 1
             /\ Len(wlog'.frames) = Len(wlog.frames) + 1]_vars

(* The records of the complete frames, as WAL::recover hands them to the
   MemTable *)
CompleteRecords(frames) ==
  [i \in 1..Len(frames) |->
     [key |-> frames[i].key,
      value |-> WalDecodeValue(frames[i].vlen, frames[i].val),
      seq |-> frames[i].seq]]

(* C31: torn-tail tolerance: for a WAL file of n complete records followed by
   a record cut at any byte, or by less than a header of garbage, replay
   returns success and has applied exactly the n complete records in order
   and nothing else. *)
C31_TornTailTolerated ==
  replay.done =>
    /\ replay.res = "ok"
    /\ RecordsFrom(WalFileBytes(wlog.frames, tail), 0) = CompleteRecords(wlog.frames)
    /\ replay.mt = ReplayRecords(CompleteRecords(wlog.frames), MemTableNew, LargeMemTable).mt
    /\ replay.mt.seq = Len(wlog.frames)

C31_Witness ==
  /\ replay.done
  /\ Len(wlog.frames) = MaxTornOps
  /\ Len(tail) > WalHeaderSize
  /\ replay.mt.data # << >>

(* The keys of the list ascend strictly *)
StrictlyAscending(data) ==
  \A i \in 1..(Len(data) - 1) : KeyLess(data[i].key, data[i + 1].key)

(* C32: MemTable ordering invariant: after any sequence of put and delete the
   entry list is in strictly ascending key order with one entry per key; an
   accepted write to an existing key replaces its entry and leaves the number
   of entries unchanged, an accepted write to a new key adds one entry, and a
   delete stores a tombstone entry. *)
C32_MemTableOrdering ==
  [][/\ StrictlyAscending(direct'.data)
     /\ (opCount' # opCount /\ last'.res = "ok")
          => /\ Len(direct'.data)
                  = IF HasKey(direct.data, last'.key) THEN Len(direct.data)
                    ELSE Len(direct.data) + 1
             /\ find_entry(direct'.data, last'.key).some
             /\ find_entry(direct'.data, last'.key).v.value = last'.val]_vars

C32_Witness ==
  /\ Len(direct.data) = 2
  /\ last.op = "delete"
  /\ last.res = "ok"
  /\ direct.data[1].key = last.key
  /\ direct.data[1].seq = MaxMemOps

(* The sum of Entry::size_bytes over the entries of the list *)
RECURSIVE SumSizes(_)
SumSizes(data) ==
  IF data = << >> THEN 0 ELSE EntrySize(Head(data)) + SumSizes(Tail(data))

(* C33: MemTable size accounting: after any sequence of put and delete,
   size_bytes() equals the sum of len(key) + len(value) + 16 over the entries
   stored. *)
C33_SizeAccounting == direct.size = SumSizes(direct.data)

(* The entry list a write would leave if it were accepted *)
IfAccepted(mt, call) ==
  insert_or_update(mt.data, [key |-> call.key, value |-> call.val, seq |-> mt.seq + 1])

(* C34: a MemTable put or delete with a valid key fails with TableFull
   exactly when the entries it would leave exceed the configured bound; a
   write that replaces an existing key and leaves the total within the bound
   is accepted. *)
C34_TableFullExactly ==
  [][(opCount' # opCount /\ last'.key # << >>)
       => (last'.res = "TableFull"
             <=> SumSizes(IfAccepted(direct, last')) > SmallMemTable)]_vars

(* C35: three-valued lookup: MemTable::get answers differently for a key that
   has a tombstone in the MemTable and for a key that was never written to
   it. *)
C35_ThreeValuedLookup ==
  \A k1, k2 \in MemKeys \ {EmptyKey} :
    (Logical(direct, k1).kind = "tombstone" /\ Logical(direct, k2).kind = "absent")
      => MemTableGet(direct, k1) # MemTableGet(direct, k2)

(* C40: a rejected MemTable write changes nothing: when put or delete returns
   TableFull or InvalidKey, the entries, size_bytes() and sequence_number()
   are what they were before the call. *)
C40_RejectedWriteChangesNothing ==
  [][(opCount' # opCount /\ last'.res # "ok") => direct' = direct]_vars

(* Some WAL file on disk holds a record of the key with this sequence number *)
WalAssigned(files, key, seq) ==
  \E p \in DOMAIN files : \E i \in 1..Len(files[p]) :
    files[p][i].key = key /\ files[p][i].seq = seq

(* C36: authoritative sequence numbers: the sequence number stored with an
   entry of the MemTable is the number the WAL assigned to that mutation,
   for entries inserted by Engine::put/delete and for entries re-inserted by
   the replay of a recovery. *)
C36_AuthoritativeSequenceNumbers ==
  status = "open"
    => \A i \in 1..Len(memtable.data) :
         WalAssigned(walFiles, memtable.data[i].key, memtable.data[i].seq)

(* The data section from_memtable writes for the entries of a MemTable *)
DataSection(mt) == Concat([i \in 1..Len(mt.data) |-> EntryBytes(mt.data[i])])

(* The bytes of a file from offset pos on, n of them *)
BytesAt(file, pos, n) ==
  SubSeq(file.body, pos - SSTableHeaderSize + 1, pos - SSTableHeaderSize + n)

(* C37: SSTable sections do not overlap: in a file written by from_memtable
   the bloom bits (10 bits per entry, rounded up to bytes) fit between
   bloom_filter_offset and data_offset for every entry count, and the bytes
   from data_offset on are the data entries as they were written. *)
C37_SectionsDoNotOverlap ==
  \A p \in DOMAIN mems :
    LET h == disk[p].header
        data == DataSection(SourceOf(p))
    IN /\ Len(BloomNew(h.entry_count * BitsPerEntry).bits)
            <= h.data_offset - h.bloom_filter_offset
       /\ BytesAt(disk[p], h.data_offset, Len(data)) = data

(* C38: MemTable size bound under concurrency: size_bytes() never exceeds
   max_size_bytes, also when several threads call put and delete on the same
   MemTable at the same time. *)
C38_SizeBoundUnderConcurrency == shared.size <= TightMemTable

(* Thread t holds the lock *)
Holds(lock, t) == lock.writer = t \/ t \in lock.readers

(* Thread t waits for a lock another thread holds *)
Blocked(t) ==
  /\ calls[t].pc > 0
  /\ StepAt(t).kind = "acq"
  /\ ~Granted(locks[StepAt(t).lock], StepAt(t).mode)

(* Thread t may be kept waiting: the lock is held against it, or it asks for
   a read lock another thread is waiting to write (whether a waiting writer
   holds up new readers is left to the platform) *)
MayWait(t) ==
  /\ calls[t].pc > 0
  /\ StepAt(t).kind = "acq"
  /\ \/ Blocked(t)
     \/ /\ StepAt(t).mode = "r"
        /\ \E u \in DOMAIN calls \ {t} :
             /\ calls[u].pc > 0
             /\ StepAt(u) = [StepAt(u) EXCEPT !.kind = "acq", !.mode = "w",
                                              !.lock = StepAt(t).lock]

(* C39: deadlock freedom of the MemTable locks: in no reachable state are all
   the threads that are inside a call kept waiting for a lock, a thread that
   is not inside a call holds no lock, and every call that was started
   returns. *)
C39_DeadlockFree ==
  /\ [](\A t \in DOMAIN calls :
          /\ calls[t].pc > 0 => \E u \in DOMAIN calls : calls[u].pc > 0 /\ ~MayWait(u)
          /\ calls[t].pc = 0 =>
               \A l \in {"data", "size", "seq"} : ~Holds(locks[l], t))
  /\ \A t \in Callers : (t \in DOMAIN calls /\ calls[t].pc > 0) ~> (calls[t].pc = 0)

(* A put, delete or clear holds the lock on the data and waits for the lock
   on size_bytes, which a call of another thread holds *)
C39_Witness ==
  \E t, u \in DOMAIN calls :
    /\ Blocked(t)
    /\ Holds(locks.data, t)
    /\ StepAt(t).lock = "size"
    /\ Holds(locks.size, u)

====
